---- MODULE Spec2Model ----
(***************************************************************************)
(* PrintFleet: the polling engine of src/printfleet/monitor.py.            *)
(*                                                                         *)
(* One Monitor thread per enabled printer polls its backend and writes a   *)
(* status record into printer_state under state_lock; the DB watcher      *)
(* (Supervisor) reconciles monitor_threads against the printers table;     *)
(* the web forms of printers/routes.py edit the printers table.            *)
(*                                                                         *)
(* Units: time in deciseconds (5.0 s = 50), temperatures in tenths of a    *)
(* degree, progress in 1/10000 (0.25 = 2500), progress_pct in tenths      *)
(* of a percent.  Python None is <<>>, a present optional value v is <<v>>.*)
(* Text is a sequence (error texts are tuples of their format arguments,   *)
(* durations are sequences of characters).                                 *)
(***************************************************************************)
EXTENDS Integers, Sequences, FiniteSets, TLC

VARIABLES
    registry,         \* printers table: id -> row (absent id = no row)
    settings,         \* settings table
    printer_state,    \* state.py printer_state: name -> record
    state_lock,       \* state.py state_lock: <<>> free, else its holder
    threads,          \* Monitor threads: thread id -> locals of monitor_printer
    nthreads,         \* number of threading.Thread objects created so far
    monitor_threads,  \* monitor.py monitor_threads: printer id -> thread id
    sup,              \* locals of db_watch_loop / start_monitor_threads
    stop_evt,         \* the process-wide threading.Event
    now,              \* time.time()
    next_id,          \* AUTOINCREMENT: the id the next inserted row gets
    edits,            \* number of edits made through the web pages so far
    reader            \* a request of /api/status: the list it got and has yet to serialize

vars == <<registry, settings, printer_state, state_lock, threads, nthreads,
          monitor_threads, sup, stop_evt, now, next_id, edits, reader>>

(***************************************************************************)
(* Bounds of the model.                                                    *)
(***************************************************************************)
MaxTicks == 1
MaxEdits == 2
MaxErrors == 1
MaxThreads == 3
PollTicks == 2
PollErrors == 2
ThrottleTicks == 7
ReadTicks == 1
ReadErrors == 1
ValueTicks == 1
MaxSaves == 2
ValueErrors == 1
StartTime == 10

Devices == {1, 2}
Names == {"A", "B"}
Hosts == {"h1", "h2"}
ThreadIds == 1..MaxThreads

(***************************************************************************)
(* Program constants.                                                      *)
(***************************************************************************)
DefaultPollInterval == 50
DefaultErrInterval == 300
MinSleep == 2
MinReloadSleep == 50
DefaultReloadInterval == 300
HttpTimeoutFloor == 50
HttpTimeoutMargin == 20
CentauriTimeoutFloor == 100
DefaultPort == 80
CentauriPort == 3030
ProgScale == 10000

\* the clock advances one default poll interval at a time
ClockStep == DefaultPollInterval
MaxNow == StartTime + MaxTicks * ClockStep
PollMaxNow == StartTime + PollTicks * ClockStep
ThrottleMaxNow == StartTime + ThrottleTicks * ClockStep
ReadMaxNow == StartTime + ReadTicks * ClockStep
ValueMaxNow == StartTime + ValueTicks * ClockStep

None == <<>>
Some(v) == <<v>>

Max(a, b) == IF a >= b THEN a ELSE b
Min(a, b) == IF a <= b THEN a ELSE b

CentauriNames == {"centauri", "centurio", "centuri", "elegoo"}


(***************************************************************************)
(* Helpers of monitor.py.                                                  *)
(***************************************************************************)
DigitChars == <<"0", "1", "2", "3", "4", "5", "6", "7", "8", "9">>

RECURSIVE Dec(_)
Dec(n) == IF n < 10 THEN <<DigitChars[n + 1]>>
          ELSE Dec(n \div 10) \o <<DigitChars[(n % 10) + 1]>>

\* Python's {:02d} for n >= 0
Pad2(n) == IF n < 10 THEN <<"0">> \o Dec(n) ELSE Dec(n)

\* Python's int() of the rational num/den (den > 0): truncation towards zero
IntOfRat(r) == IF r[1] >= 0 THEN r[1] \div r[2] ELSE -((-r[1]) \div r[2])

\* a duration that is always given in minutes and seconds
fmt_min_only(s) ==
    Pad2(s \div 60) \o <<":">> \o Pad2(s % 60) \o <<" ", "m", "i", "n">>

\* fmt_hms on whole seconds s >= 0
fmt_hms_int(s) ==
    LET h == s \div 3600
        m == (s % 3600) \div 60
        s2 == s % 60
    IN  IF h > 0
        THEN Dec(h) \o <<":">> \o Pad2(m) \o <<":">> \o Pad2(s2) \o <<" ", "h">>
        ELSE Pad2(m) \o <<":">> \o Pad2(s2) \o <<" ", "m", "i", "n">>

\* fmt_hms(seconds): s = int(seconds or 0)
fmt_hms(seconds) == fmt_hms_int(IntOfRat(seconds))

\* Python's round(n/d, 0) for n >= 0, d > 0: the nearest integer, the even one of
\* two that are equally near
RoundHalfEven(n, d) ==
    LET q == n \div d
        r == n % d
    IN  IF 2 * r < d THEN q
        ELSE IF 2 * r > d THEN q + 1
        ELSE IF q % 2 = 0 THEN q ELSE q + 1

\* a percentage of the progress as it comes, without the limits 0 and 1
progress_pct_unclamped(progress) ==
    IF progress >= 0 THEN RoundHalfEven(progress * 1000, ProgScale)
    ELSE -RoundHalfEven((-progress) * 1000, ProgScale)

\* progress_bar_pct: round(max(0, min(1, progress)) * 100, 1), in tenths of a
\* percent.  (A float that is written x.x5 in decimal is a little more or a
\* little less in binary and goes to that side; the inputs of the samples are
\* none of those.)
progress_bar_pct(progress) ==
    RoundHalfEven(Max(0, Min(ProgScale, progress)) * 1000, ProgScale)

Rat(n) == <<n, 1>>
ZeroMinSec == <<"0", "0", ":", "0", "0", " ", "m", "i", "n">>

Scheme(https) == IF https THEN "https" ELSE "http"
Link(host, port, https) == <<Scheme(https), host, port>>

build_no_scanning_state(prn, name, host, port, https) ==
    [id |-> prn.id,
     name |-> name,
     backend |-> prn.backend,
     host |-> host,
     state |-> "no_scanning",
     filename |-> "",
     progress_pct |-> 0,
     elapsed_s |-> Rat(0),
     eta_s |-> Rat(0),
     elapsed_hms |-> <<>>,
     eta_hms |-> <<>>,
     hotend |-> None,
     hotend_t |-> None,
     bed |-> None,
     bed_t |-> None,
     last_update |-> 0,
     error |-> None,
     link |-> Link(host, port, https),
     tasmota_host |-> prn.tasmota_host,
     no_scanning |-> TRUE]

\* the placeholder create_initial_state writes for a polled printer
InitialRecord(prn, t) ==
    [id |-> prn.id,
     name |-> prn.name,
     backend |-> prn.backend,
     host |-> prn.host,
     state |-> "standby",
     filename |-> "",
     progress_pct |-> 0,
     elapsed_s |-> Rat(0),
     eta_s |-> Rat(0),
     elapsed_hms |-> ZeroMinSec,
     eta_hms |-> ZeroMinSec,
     hotend |-> Some(0),
     hotend_t |-> Some(0),
     bed |-> Some(0),
     bed_t |-> Some(0),
     last_update |-> t \div 10,
     error |-> None,
     link |-> Link(prn.host, prn.port, prn.https),
     tasmota_host |-> prn.tasmota_host,
     no_scanning |-> FALSE]

(***************************************************************************)
(* dict operations on printer_state and on a record                        *)
(***************************************************************************)
\* a store that keeps nothing but the entry written last
DictSetAlone(ps, k, v) == [x \in {k} |-> v]

DictSet(ps, k, v) == [x \in (DOMAIN ps) \cup {k} |-> IF x = k THEN v ELSE ps[x]]
DictPop(ps, k) == [x \in (DOMAIN ps) \ {k} |-> ps[x]]
DictUpdate(st, upd) ==
    [f \in (DOMAIN st) \cup (DOMAIN upd) |-> IF f \in DOMAIN upd THEN upd[f] ELSE st[f]]
EmptyDict == [x \in {} |-> 0]


(***************************************************************************)
(* db.py: the printers table as the core reads it                          *)
(***************************************************************************)
\* the dict load_printers_from_db builds from row d
PrnOfRow(d, row) ==
    [id |-> d,
     name |-> row.name,
     backend |-> row.backend,
     host |-> row.host,
     port |-> row.port,
     https |-> row.https,
     no_scanning |-> row.no_scanning,
     tasmota_host |-> row.tasmota_host,
     error_report_interval |-> row.error_report_interval]

RECURSIVE PrnList(_, _)
PrnList(reg, ids) ==
    IF ids = {} THEN <<>>
    ELSE LET d == CHOOSE x \in ids : \A y \in ids : x <= y
         IN  <<PrnOfRow(d, reg[d])>> \o PrnList(reg, ids \ {d})

\* SELECT * FROM printers WHERE enabled = 1 ORDER BY id
load_printers_from_db(reg) == PrnList(reg, {d \in DOMAIN reg : reg[d].enabled})

\* names must be unique among enabled printers (the caller's invariant)
NamesUnique(reg) ==
    \A d1, d2 \in DOMAIN reg :
        (d1 # d2 /\ reg[d1].enabled /\ reg[d2].enabled) => reg[d1].name # reg[d2].name

NewRow(name, backend, host, ns) ==
    [name |-> name,
     backend |-> backend,
     host |-> host,
     port |-> DefaultPort,
     https |-> FALSE,
     no_scanning |-> ns,
     enabled |-> TRUE,
     tasmota_host |-> None,
     error_report_interval |-> DefaultErrInterval]

(***************************************************************************)
(* backends.py: what one fetch_* call gives on a wire condition            *)
(***************************************************************************)
\* texts are sequences of characters; str.lower()
lower(st) ==
    LET UpperChars == <<"A", "B", "C", "D", "E", "F", "G", "H", "I", "J", "K", "L", "M", "N",
                       "O", "P", "Q", "R", "S", "T", "U", "V", "W", "X", "Y", "Z">>
        LowerChars == <<"a", "b", "c", "d", "e", "f", "g", "h", "i", "j", "k", "l", "m", "n",
                       "o", "p", "q", "r", "s", "t", "u", "v", "w", "x", "y", "z">>
    IN  [i \in DOMAIN st |->
            IF \E j \in DOMAIN UpperChars : UpperChars[j] = st[i]
            THEN LowerChars[CHOOSE j \in DOMAIN UpperChars : UpperChars[j] = st[i]]
            ELSE st[i]]

\* pat in st
contains(pat, st) ==
    \E i \in 0..(Len(st) - Len(pat)) : SubSeq(st, i + 1, i + Len(pat)) = pat

\* the words fetch_octoprint looks for
Kw ==
    [printing |-> <<"p", "r", "i", "n", "t", "i", "n", "g">>,
     in_progress |-> <<"i", "n", " ", "p", "r", "o", "g", "r", "e", "s", "s">>,
     paused |-> <<"p", "a", "u", "s", "e", "d">>,
     cancelling |-> <<"c", "a", "n", "c", "e", "l", "l", "i", "n", "g">>,
     cancelled |-> <<"c", "a", "n", "c", "e", "l", "l", "e", "d">>,
     complete |-> <<"c", "o", "m", "p", "l", "e", "t", "e">>,
     finished |-> <<"f", "i", "n", "i", "s", "h", "e", "d">>,
     done |-> <<"d", "o", "n", "e">>,
     error |-> <<"e", "r", "r", "o", "r">>,
     offline |-> <<"o", "f", "f", "l", "i", "n", "e">>,
     closed |-> <<"c", "l", "o", "s", "e", "d">>]

\* the rules of fetch_octoprint on the text as it is, capitals included
octoprint_state_exact(state_text) ==
    LET st == state_text
    IN  IF contains(Kw.printing, st) \/ contains(Kw.in_progress, st) THEN "printing"
        ELSE IF contains(Kw.paused, st) THEN "paused"
        ELSE IF contains(Kw.cancelling, st) \/ contains(Kw.cancelled, st) THEN "cancelled"
        ELSE IF \E k \in {Kw.complete, Kw.finished, Kw.done} : contains(k, st) THEN "complete"
        ELSE IF \E k \in {Kw.error, Kw.offline, Kw.closed} : contains(k, st) THEN "error"
        ELSE "standby"

\* lines 198-210: the state of an OctoPrint job text
octoprint_state(state_text) ==
    LET st == lower(state_text)
    IN  IF contains(Kw.printing, st) \/ contains(Kw.in_progress, st) THEN "printing"
        ELSE IF contains(Kw.paused, st) THEN "paused"
        ELSE IF contains(Kw.cancelling, st) \/ contains(Kw.cancelled, st) THEN "cancelled"
        ELSE IF \E k \in {Kw.complete, Kw.finished, Kw.done} : contains(k, st) THEN "complete"
        ELSE IF \E k \in {Kw.error, Kw.offline, Kw.closed} : contains(k, st) THEN "error"
        ELSE "standby"

\* lines 113-121: the state of an SDCP PrintInfo.Status code
state_map ==
    [c \in 0..4 |->
        CASE c = 0 -> "standby"
          [] c = 1 -> "printing"
          [] c = 2 -> "paused"
          [] c = 3 -> "stopped"
          [] c = 4 -> "complete"]
centauri_state(st_raw) ==
    IF st_raw \in DOMAIN state_map THEN state_map[st_raw] ELSE "standby"

\* a progress made of the ticks without the clamp to [0, 1]
centauri_progress_unclamped(prog_raw, elapsed, total) ==
    IF prog_raw > ProgScale THEN prog_raw \div 100
    ELSE IF prog_raw > 0 THEN prog_raw
    ELSE IF total > 0 THEN (elapsed * ProgScale) \div total
    ELSE 0

\* lines 101-109: the progress made of PrintInfo.Progress (prog_raw), or of
\* CurrentTicks / TotalTicks when Progress is no positive number
centauri_progress(prog_raw, elapsed, total) ==
    IF prog_raw > ProgScale THEN prog_raw \div 100
    ELSE IF prog_raw > 0 THEN prog_raw
    ELSE IF total > 0 THEN Max(0, Min(ProgScale, (elapsed * ProgScale) \div total))
    ELSE 0

\* lines 89-123: the tuple fetch_centauri returns for a Status frame
centauri_result(report) ==
    [report EXCEPT !.state = centauri_state(report.state.centauri.Status),
                   !.progress = centauri_progress(report.progress, report.elapsed,
                                                  report.state.centauri.TotalTicks)]

\* line 158: print_stats.state as it is, "unknown" when the key is missing
moonraker_state(ps_state) == IF ps_state = None THEN "unknown" ELSE ps_state[1]

\* the state texts of OctoPrint the samples use
Tx ==
    [operational |-> <<"O", "p", "e", "r", "a", "t", "i", "o", "n", "a", "l">>,
     printing |-> <<"P", "r", "i", "n", "t", "i", "n", "g">>,
     paused |-> <<"P", "a", "u", "s", "e", "d">>,
     cancelling |-> <<"C", "a", "n", "c", "e", "l", "l", "i", "n", "g">>,
     offline_after_error |-> <<"O", "f", "f", "l", "i", "n", "e", " ", "a", "f", "t", "e", "r", " ", "e", "r", "r", "o", "r">>,
     finishing |-> <<"F", "i", "n", "i", "s", "h", "i", "n", "g">>,
     in_progress |-> <<"J", "o", "b", " ", "I", "n", " ", "P", "r", "o", "g", "r", "e", "s", "s">>,
     paused_printing |-> <<"P", "a", "u", "s", "e", "d", ",", " ", "w", "a", "s", " ", "p", "r", "i", "n", "t", "i", "n", "g">>,
     cancelled_error |-> <<"C", "a", "n", "c", "e", "l", "l", "e", "d", " ", "a", "f", "t", "e", "r", " ", "e", "r", "r", "o", "r">>,
     finished |-> <<"F", "i", "n", "i", "s", "h", "e", "d">>,
     done_offline |-> <<"D", "o", "n", "e", ",", " ", "o", "f", "f", "l", "i", "n", "e">>,
     closed |-> <<"C", "l", "o", "s", "e", "d">>]

\* what a printer reports as its state, in the form each kind of backend gets it:
\* print_stats.state of Moonraker (None: no such key), the state text of
\* OctoPrint's /api/job, PrintInfo.Status and PrintInfo.TotalTicks of SDCP
Report(mr, op, status, total) ==
    [moonraker |-> mr, octoprint |-> op,
     centauri |-> [Status |-> status, TotalTicks |-> total]]

\* An answer holds what the device sent in each field; bad names the numeric
\* fields whose value is not a number (a text, null), the number written in
\* such a field meaning nothing.
Idle ==
    [state |-> Report(Some("standby"), Tx.operational, 0, 0),
     filename |-> "", elapsed |-> 0, progress |-> 0,
     hotend |-> 250, hotend_t |-> 0, bed |-> 250, bed_t |-> 0, bad |-> {}]
Printing ==
    [state |-> Report(Some("printing"), Tx.printing, 1, 0),
     filename |-> "x.gcode", elapsed |-> 600, progress |-> 2500,
     hotend |-> 2100, hotend_t |-> 2100, bed |-> 600, bed_t |-> 600, bad |-> {}]
HeatUp ==
    [state |-> Report(Some("standby"), Tx.operational, 0, 0),
     filename |-> "x.gcode", elapsed |-> 0, progress |-> 0,
     hotend |-> 1500, hotend_t |-> 2100, bed |-> 400, bed_t |-> 600, bad |-> {}]
NoReport ==
    [state |-> Report(None, <<>>, 0, 0), filename |-> "", elapsed |-> 0, progress |-> 0,
     hotend |-> 0, hotend_t |-> 0, bed |-> 0, bed_t |-> 0, bad |-> {}]
NoRes ==
    [state |-> "", filename |-> "", elapsed |-> 0, progress |-> 0,
     hotend |-> 0, hotend_t |-> 0, bed |-> 0, bed_t |-> 0, bad |-> {}]

Samples == {Idle, Printing, HeatUp}

\* wire conditions of one call: an answer, no connection / no answer in time,
\* or an answer of an unexpected shape
\* paths is what the endpoint paths of a Centauri device meet, in the order the
\* adapter tries them: "refused" (no connection), "recv_error", "timeout" (no
\* Status frame in time), "bad_value" (a Status frame with a value that is no
\* number), "status"
Answer(r) == [kind |-> "answer", res |-> r, paths |-> <<"status">>]
Refused == [kind |-> "refused", res |-> NoReport, paths |-> [i \in 1..5 |-> "refused"]]
Garbled == [kind |-> "garbled", res |-> NoReport, paths |-> <<"bad_value">>]
Wires == {Answer(r) : r \in Samples} \cup {Refused, Garbled}

\* the outcome of a call; raw is what the device had sent
NoOut ==
    [exc |-> "none", res |-> NoRes, e |-> <<>>, wire |-> "", url |-> <<>>, raw |-> NoReport,
     paths |-> <<>>, opened |-> {}, closed |-> {}]

\* lines 14-19: float(x), or 0.0 when x is no number.  Line 183 does the same
\* for OctoPrint's completion (isinstance(progress, (int, float)), else 0.0).
_num(report, f) == IF f \in report.bad THEN 0 ELSE report[f]

\* requests.get raises a RequestException when the connection or the HTTP status
\* fails; a payload of another shape fails later with some other exception.
\* state is the state the adapter makes of an answer.
fetch_http(base_url, wire, state) ==
    CASE wire.kind = "answer" ->
            [NoOut EXCEPT !.res = [f \in DOMAIN wire.res |->
                                        IF f = "state" THEN state
                                        ELSE IF f = "bad" THEN {}
                                        ELSE IF f = "filename" THEN wire.res[f]
                                        ELSE _num(wire.res, f)],
                          !.wire = wire.kind, !.url = base_url]
      [] wire.kind = "refused" ->
            [NoOut EXCEPT !.exc = "RequestException", !.e = <<"refused">>, !.wire = wire.kind, !.url = base_url]
      [] OTHER -> [NoOut EXCEPT !.exc = "Exception", !.e = <<"garbled">>, !.wire = wire.kind, !.url = base_url]

fetch_moonraker(base_url, wire) ==
    fetch_http(base_url, wire, moonraker_state(wire.res.state.moonraker))
fetch_octoprint(base_url, wire) ==
    fetch_http(base_url, wire, octoprint_state(wire.res.state.octoprint))

\* lines 36-46: the WebSocket address is made of the host of base_url alone
WsUrl(base_url) == <<"ws", base_url[2], CentauriPort>>

\* a socket that is closed only on the way of the return statement
closed_on_return(cond) == cond = "status"

\* lines 125-129: finally: ws.close(), on every way out of the try block
closed_finally(cond) == TRUE

\* lines 45-129: the loop over the endpoint paths from path i on.  A path whose
\* connection fails opens no socket; a read error or a timeout goes on to the
\* next path; a Status frame ends the loop by return or by the exception of a
\* conversion.  socks holds the paths whose socket was opened and closed.
RECURSIVE centauri_sockets(_, _, _)
centauri_sockets(paths, i, socks) ==
    IF i > Len(paths) THEN socks
    ELSE LET cond == paths[i]
             after == [opened |-> socks.opened \cup {i},
                       closed |-> IF closed_finally(cond) THEN socks.closed \cup {i}
                                  ELSE socks.closed]
         IN  IF cond = "refused" THEN centauri_sockets(paths, i + 1, socks)
             ELSE IF cond \in {"recv_error", "timeout"} THEN centauri_sockets(paths, i + 1, after)
             ELSE after

\* a Centauri adapter whose connection failure is a RequestException
fetch_centauri_unreachable(base_url, wire) ==
    CASE wire.kind = "answer" /\ wire.res.bad = {} ->
            [NoOut EXCEPT !.res = centauri_result(wire.res),
                          !.wire = wire.kind, !.url = WsUrl(base_url)]
      [] wire.kind = "refused" ->
            [NoOut EXCEPT !.exc = "RequestException", !.e = <<"refused">>, !.wire = wire.kind, !.url = WsUrl(base_url)]
      [] OTHER -> [NoOut EXCEPT !.exc = "Exception", !.e = <<"garbled">>, !.wire = wire.kind, !.url = WsUrl(base_url)]

\* every failure inside fetch_centauri ends in RuntimeError (no path connected,
\* no Status frame) or in the exception of a float()/int() conversion (lines
\* 93-111: a Status frame with a value that is no number)
fetch_centauri(base_url, wire) ==
    CASE wire.kind = "answer" /\ wire.res.bad = {} ->
            [NoOut EXCEPT !.res = centauri_result(wire.res),
                          !.wire = wire.kind, !.url = WsUrl(base_url)]
      [] wire.kind = "refused" ->
            [NoOut EXCEPT !.exc = "Exception",
                          !.e = <<"SDCP-Status konnte nicht gelesen werden", "refused">>,
                          !.wire = wire.kind, !.url = WsUrl(base_url)]
      [] OTHER -> [NoOut EXCEPT !.exc = "Exception", !.e = <<"garbled">>, !.wire = wire.kind, !.url = WsUrl(base_url)]

Fetch(be, base_url, wire) ==
    LET out == IF be = "octoprint" THEN fetch_octoprint(base_url, wire)
               ELSE IF be \in CentauriNames THEN fetch_centauri(base_url, wire)
               ELSE fetch_moonraker(base_url, wire)
        socks == IF be \in CentauriNames
                 THEN centauri_sockets(wire.paths, 1, [opened |-> {}, closed |-> {}])
                 ELSE [opened |-> {}, closed |-> {}]
    IN  [out EXCEPT !.raw = wire.res, !.paths = wire.paths,
                     !.opened = socks.opened, !.closed = socks.closed]

\* one timeout rule for every kind of backend
AdapterTimeoutHttp(be, poll_interval) ==
    Max(HttpTimeoutFloor, poll_interval + HttpTimeoutMargin)

\* timeout handed to the adapter, and the pause of an iteration
AdapterTimeout(be, poll_interval) ==
    IF be \in CentauriNames THEN Max(CentauriTimeoutFloor, poll_interval * 2)
    ELSE Max(HttpTimeoutFloor, poll_interval + HttpTimeoutMargin)
SleepTime(poll_interval) == Max(MinSleep, poll_interval)


(***************************************************************************)
(* monitor_printer: the locals of one Monitor thread                       *)
(***************************************************************************)
NoPrn ==
    [id |-> 0, name |-> "", backend |-> "", host |-> "", port |-> 0, https |-> FALSE,
     no_scanning |-> FALSE, tasmota_host |-> None, error_report_interval |-> 0]

UnbornThread ==
    [pc |-> "unborn", prn |-> NoPrn, name |-> "", host |-> "", port |-> 0,
     https |-> FALSE, scheme |-> "", be |-> "", cur_tas |-> None, err_interval |-> 0,
     consecutive_errors |-> 0, last_error_report_ts |-> 0, last_error_text |-> None,
     row_ok |-> FALSE, out |-> NoOut, err |-> None, tnow |-> 0, poll_interval |-> 0,
     timeout |-> 0, wake |-> 0]

\* the frame of a thread that has returned keeps nothing but whose it was
DoneThread(pid) == [UnbornThread EXCEPT !.pc = "done", !.prn.id = pid]

\* lines 78-105: the locals set up before the loop
NewThread(prn) ==
    [pc |-> "top", prn |-> prn, name |-> prn.name, host |-> prn.host, port |-> prn.port,
     https |-> prn.https, scheme |-> Scheme(prn.https), be |-> prn.backend,
     cur_tas |-> prn.tasmota_host, err_interval |-> prn.error_report_interval,
     consecutive_errors |-> 0, last_error_report_ts |-> 0, last_error_text |-> None,
     row_ok |-> FALSE, out |-> NoOut, err |-> None, tnow |-> 0, poll_interval |-> 0,
     timeout |-> 0, wake |-> 0]

is_alive(t) == threads[t].pc \notin {"unborn", "done"}
BaseUrl(th) == <<th.scheme, th.prn.host, th.prn.port>>
MonLock(t) == <<"mon", t>>
SupLock == <<"sup">>

\* a loop head that looks for the row but not at its enabled flag
RowVerdictNoEnabled(reg, pid) ==
    IF pid \notin DOMAIN reg THEN "gone"
    ELSE IF reg[pid].no_scanning THEN "no_scanning"
    ELSE "poll"

\* lines 118, 129: what the loop head does with the row it read
RowVerdict(reg, pid) ==
    IF pid \notin DOMAIN reg \/ ~reg[pid].enabled THEN "gone"
    ELSE IF reg[pid].no_scanning THEN "no_scanning"
    ELSE "poll"

\* a loop head that goes by the configured default and never by the settings
poll_interval_default(settings_ok, st) == DefaultPollInterval

\* lines 141-147: the poll interval of an iteration is the one in the settings
\* table; when load_settings_from_db raises it is GLOBAL["interval"]
poll_interval_loaded(settings_ok, st) ==
    IF settings_ok THEN st.poll_interval ELSE DefaultPollInterval

\* a loop head that takes a failed read of the row for a deleted row
LoopVerdictStrict(db_ok, reg, pid) ==
    IF db_ok THEN RowVerdict(reg, pid) ELSE "gone"

\* lines 109-139: the try block around the read of the row; an exception in
\* it is logged and the iteration goes on to the adapter call
LoopVerdict(db_ok, reg, pid) ==
    IF db_ok THEN RowVerdict(reg, pid) ELSE "poll"

\* a Centauri rule that keeps "printing" over every "standby" answer
KeepPrintingAlways(be, prev, res) ==
    /\ be \in CentauriNames
    /\ prev # None
    /\ "state" \in DOMAIN prev[1]
    /\ prev[1].state = "printing"
    /\ res.state = "standby"

\* lines 177-197: Centauri keeps "printing" over a "standby" answer
KeepPrinting(be, prev, res) ==
    /\ be \in CentauriNames
    /\ prev # None
    /\ "state" \in DOMAIN prev[1]
    /\ prev[1].state = "printing"
    /\ res.state = "standby"
    /\ (res.progress > 0 \/ res.hotend_t > 0 \/ res.bed_t > 0)

PublishedState(be, prev, res) ==
    IF KeepPrinting(be, prev, res) THEN "printing" ELSE res.state

\* the whole print time elapsed / progress instead of the rest of it
EtaTotal(progress, elapsed) ==
    IF progress > 0 /\ elapsed > 0
    THEN <<elapsed * ProgScale, progress>>
    ELSE Rat(0)

\* lines 201-203
EtaOf(progress, elapsed) ==
    IF progress > 0 /\ elapsed > 0
    THEN <<elapsed * (ProgScale - progress), progress>>
    ELSE Rat(0)

\* lines 206-227: the record of a successful poll
SuccessRecord(th, res, t) ==
    [id |-> th.prn.id,
     name |-> th.name,
     backend |-> th.be,
     host |-> th.host,
     state |-> res.state,
     filename |-> res.filename,
     progress_pct |-> progress_bar_pct(res.progress),
     elapsed_s |-> Rat(res.elapsed),
     eta_s |-> EtaOf(res.progress, res.elapsed),
     elapsed_hms |-> fmt_hms(Rat(res.elapsed)),
     eta_hms |-> fmt_hms(EtaOf(res.progress, res.elapsed)),
     hotend |-> Some(res.hotend),
     hotend_t |-> Some(res.hotend_t),
     bed |-> Some(res.bed),
     bed_t |-> Some(res.bed_t),
     last_update |-> t \div 10,
     error |-> None,
     link |-> Link(th.host, th.port, th.scheme = "https"),
     tasmota_host |-> th.cur_tas,
     no_scanning |-> FALSE]

\* line 236 and line 283: the error texts
OfflineText(th, n, e) == <<"NICHT ERREICHBAR (Versuch", n, e>>
UnexpectedText(th, e) == <<"Unerwarteter Fehler im Backend", th.be, BaseUrl(th), e>>

\* lines 240-249: printer_state.get(name, {...})
OfflineDefault(th) ==
    [id |-> th.prn.id, name |-> th.name, backend |-> th.be, host |-> th.host,
     tasmota_host |-> th.cur_tas]

\* lines 250-268: the fields st.update() sets
OfflineUpdate(th) ==
    [state |-> "offline",
     filename |-> "",
     progress_pct |-> 0,
     elapsed_s |-> Rat(0),
     eta_s |-> Rat(0),
     elapsed_hms |-> ZeroMinSec,
     eta_hms |-> ZeroMinSec,
     hotend |-> Some(0),
     hotend_t |-> Some(0),
     bed |-> Some(0),
     bed_t |-> Some(0),
     last_update |-> th.tnow \div 10,
     error |-> Some(th.err),
     link |-> Link(th.host, th.port, th.scheme = "https"),
     no_scanning |-> FALSE]

\* an offline record built from the Monitor's own locals, whatever is stored
OfflineRecordFresh(ps, th) == DictUpdate(OfflineDefault(th), OfflineUpdate(th))

OfflineRecord(ps, th) ==
    DictUpdate(IF th.name \in DOMAIN ps THEN ps[th.name] ELSE OfflineDefault(th),
               OfflineUpdate(th))

\* lines 287-297
ErrorDefault(th) ==
    [id |-> th.prn.id, name |-> th.name, backend |-> th.be, host |-> th.host,
     tasmota_host |-> th.cur_tas, link |-> Link(th.host, th.port, th.scheme = "https")]

\* lines 302-304
CentauriErrorUpdate(th) ==
    [error |-> Some(th.err), last_update |-> th.tnow \div 10, no_scanning |-> FALSE]

\* lines 307-324
ErrorUpdate(th) ==
    [state |-> "error",
     filename |-> "",
     progress_pct |-> 0,
     elapsed_s |-> Rat(0),
     eta_s |-> Rat(0),
     elapsed_hms |-> ZeroMinSec,
     eta_hms |-> ZeroMinSec,
     hotend |-> Some(0),
     hotend_t |-> Some(0),
     bed |-> Some(0),
     bed_t |-> Some(0),
     last_update |-> th.tnow \div 10,
     error |-> Some(th.err),
     no_scanning |-> FALSE]

\* an error record that is forced to "error" for every backend
ErrorRecordHard(ps, th) ==
    DictUpdate(IF th.name \in DOMAIN ps THEN ps[th.name] ELSE ErrorDefault(th),
               ErrorUpdate(th))

ErrorRecord(ps, th) ==
    DictUpdate(IF th.name \in DOMAIN ps THEN ps[th.name] ELSE ErrorDefault(th),
               IF th.be \in CentauriNames THEN CentauriErrorUpdate(th) ELSE ErrorUpdate(th))

\* a throttle that lets only the first failure of a row through
ShouldReportFirst(th) == th.consecutive_errors = 1

\* lines 271-275 and 329-333: is this failure printed to stderr?
ShouldReport(th) ==
    \/ th.consecutive_errors = 1
    \/ Some(th.err) # th.last_error_text
    \/ th.tnow - th.last_error_report_ts >= th.err_interval


(***************************************************************************)
(* dashboard/routes.py: a request of /api/status.  _sorted_printer_rows    *)
(* returns a list of the dicts stored in printer_state (the objects, not   *)
(* copies); jsonify reads them after the lock is released.  A row of the   *)
(* list is the key, what the dict holds now (rec), whether printer_state   *)
(* still holds that dict under the key (same) and what the dict held when  *)
(* the list was made (was).                                                *)
(***************************************************************************)
IdleReader == [pc |-> "idle", rows |-> <<>>]

\* sorted(): str compares by code point; the names of the model in that order
NameOrder == <<"A", "B">>
Rank(n) == CHOOSE i \in 1..Len(NameOrder) : NameOrder[i] = n

RECURSIVE sorted(_)
sorted(keys) ==
    IF keys = {} THEN <<>>
    ELSE LET k == CHOOSE x \in keys : \A y \in keys : Rank(x) <= Rank(y)
         IN  <<k>> \o sorted(keys \ {k})

\* the rows in the order of the ids of their records, whatever the names are
RECURSIVE by_id(_, _)
by_id(ps, keys) ==
    IF keys = {} THEN <<>>
    ELSE LET k == CHOOSE x \in keys : \A y \in keys : ps[x].id <= ps[y].id
         IN  <<k>> \o by_id(ps, keys \ {k})
printer_rows_by_id(ps) ==
    LET ks == by_id(ps, DOMAIN ps)
    IN  [i \in 1..Len(ks) |->
            [key |-> ks[i], rec |-> ps[ks[i]], same |-> TRUE, was |-> ps[ks[i]]]]

\* line 17: [printer_state[k] for k in sorted(printer_state.keys())]
sorted_printer_rows(ps) ==
    LET ks == sorted(DOMAIN ps)
    IN  [i \in 1..Len(ks) |->
            [key |-> ks[i], rec |-> ps[ks[i]], same |-> TRUE, was |-> ps[ks[i]]]]

\* st = printer_state.get(name, {...}) gives the stored dict when there is one,
\* and st.update(...) or st[...] = ... then changes that dict itself
UpdatesInPlace(ps, th) == th.out.exc # "none" /\ th.name \in DOMAIN ps

\* the dict stored under key k is changed in place to rec
Mutated(rd, k, rec) ==
    [rd EXCEPT !.rows = [i \in DOMAIN rd.rows |->
        IF rd.rows[i].key = k /\ rd.rows[i].same
        THEN [rd.rows[i] EXCEPT !.rec = rec]
        ELSE rd.rows[i]]]

\* key k is bound to a new dict, or removed
Rebound(rd, k) ==
    [rd EXCEPT !.rows = [i \in DOMAIN rd.rows |->
        IF rd.rows[i].key = k THEN [rd.rows[i] EXCEPT !.same = FALSE] ELSE rd.rows[i]]]

(***************************************************************************)
(* monitor_printer: the steps of one loop iteration of thread t.           *)
(* A step ends where the thread next reads or writes what other threads    *)
(* share: the printers table, printer_state, state_lock, the clock.        *)
(***************************************************************************)
coreVars == <<registry, settings, nthreads, monitor_threads, sup, stop_evt, now,
              next_id, edits>>
monVars == <<coreVars, reader>>

\* lines 339, 107, 109-171: time.sleep returns and the loop head runs.  The
\* stop signal ends the thread; else the row is read (db_ok = FALSE: the read
\* raises, which is only logged), the poll interval is loaded (settings_ok =
\* FALSE: the read raises) and the adapter call starts with its timeout.
LoopHead(t, db_ok, settings_ok) ==
    /\ threads[t].pc = "top"
    /\ now >= threads[t].wake
    /\ LET th == threads[t] IN
       IF stop_evt
       THEN threads' = [threads EXCEPT ![t] = DoneThread(th.prn.id)]
       ELSE LET verdict == LoopVerdict(db_ok, registry, th.prn.id)
                row == registry[th.prn.id]
                poll_interval == poll_interval_loaded(settings_ok, settings)
            IN  threads' = [threads EXCEPT ![t] =
                    CASE verdict = "gone" -> [th EXCEPT !.pc = "pop", !.row_ok = db_ok]
                      [] verdict = "no_scanning" ->
                            [th EXCEPT !.pc = "ns",
                                       !.row_ok = db_ok,
                                       !.cur_tas = row.tasmota_host,
                                       !.prn.tasmota_host = row.tasmota_host,
                                       !.host = row.host,
                                       !.port = row.port,
                                       !.https = row.https]
                      [] OTHER ->
                            [th EXCEPT !.pc = "fetch",
                                       !.row_ok = db_ok,
                                       !.cur_tas = IF db_ok THEN row.tasmota_host ELSE @,
                                       !.poll_interval = poll_interval,
                                       !.timeout = AdapterTimeout(th.be, poll_interval)]]
    /\ UNCHANGED <<printer_state, state_lock>>
    /\ UNCHANGED monVars

MonitorLoopTop(t) == \E db_ok, settings_ok \in BOOLEAN : LoopHead(t, db_ok, settings_ok)

\* lines 122-123: with state_lock: printer_state.pop(name, None)
MonitorPop(t) ==
    /\ threads[t].pc = "pop"
    /\ state_lock = <<>>
    /\ state_lock' = MonLock(t)
    /\ printer_state' = DictPop(printer_state, threads[t].name)
    /\ reader' = Rebound(reader, threads[t].name)
    /\ threads' = [threads EXCEPT ![t].pc = "pop_rel"]
    /\ UNCHANGED coreVars

\* lines 134-135: with state_lock: printer_state[name] = build_no_scanning_state(...)
MonitorNoScan(t) ==
    /\ threads[t].pc = "ns"
    /\ state_lock = <<>>
    /\ state_lock' = MonLock(t)
    /\ LET th == threads[t] IN
       printer_state' = DictSet(printer_state, th.name,
            build_no_scanning_state(th.prn, th.name, th.host, th.port, th.https))
    /\ reader' = Rebound(reader, threads[t].name)
    /\ threads' = [threads EXCEPT ![t].pc = "ns_rel"]
    /\ UNCHANGED coreVars

\* a placeholder write after which the loop goes on
MonitorExitLoops(t) ==
    /\ threads[t].pc \in {"pop_rel", "ns_rel"}
    /\ state_lock = MonLock(t)
    /\ state_lock' = <<>>
    /\ threads' = [threads EXCEPT ![t] =
            IF threads[t].pc = "ns_rel"
            THEN [threads[t] EXCEPT !.pc = "top", !.wake = now + MinSleep]
            ELSE DoneThread(threads[t].prn.id)]
    /\ UNCHANGED printer_state
    /\ UNCHANGED monVars

\* lines 125 and 136: the lock is released and the break leaves the loop
MonitorExit(t) ==
    /\ threads[t].pc \in {"pop_rel", "ns_rel"}
    /\ state_lock = MonLock(t)
    /\ state_lock' = <<>>
    /\ threads' = [threads EXCEPT ![t] = DoneThread(threads[t].prn.id)]
    /\ UNCHANGED printer_state
    /\ UNCHANGED monVars

\* an adapter call whose unexpected exception leaves the loop
AfterFetchDies(th, out, prev, tm) ==
    IF out.exc = "none"
    THEN [th EXCEPT !.pc = "rel_ok",
                    !.out = [out EXCEPT !.res.state = PublishedState(th.be, prev, out.res)]]
    ELSE [th EXCEPT !.pc = IF out.exc = "RequestException" THEN "rel_fail" ELSE "done",
                    !.out = out,
                    !.consecutive_errors = @ + 1,
                    !.err = IF out.exc = "RequestException"
                            THEN OfflineText(th, th.consecutive_errors + 1, out.e)
                            ELSE UnexpectedText(th, out.e),
                    !.tnow = tm]

\* the locals after the adapter call of thread th ended with out at time tm
AfterFetch(th, out, prev, tm) ==
    IF out.exc = "none"
    THEN [th EXCEPT !.pc = "rel_ok",
                    !.out = [out EXCEPT !.res.state = PublishedState(th.be, prev, out.res)]]
    ELSE [th EXCEPT !.pc = "rel_fail",
                    !.out = out,
                    !.consecutive_errors = @ + 1,
                    !.err = IF out.exc = "RequestException"
                            THEN OfflineText(th, th.consecutive_errors + 1, out.e)
                            ELSE UnexpectedText(th, out.e),
                    !.tnow = tm]

\* a branch that leaves the stored record as it is when there is one
RecordKept(ps, th, tm) ==
    IF th.name \in DOMAIN ps THEN ps[th.name]
    ELSE CASE th.out.exc = "none" -> SuccessRecord(th, th.out.res, tm)
           [] th.out.exc = "RequestException" -> OfflineRecord(ps, th)
           [] OTHER -> ErrorRecord(ps, th)

\* the record the with-block of the matching branch stores under name
RecordWritten(ps, th, tm) ==
    CASE th.out.exc = "none" -> SuccessRecord(th, th.out.res, tm)
      [] th.out.exc = "RequestException" -> OfflineRecord(ps, th)
      [] OTHER -> ErrorRecord(ps, th)

\* lines 150-227, 233-269, 280-326: the adapter call on wire condition wire
\* returns or raises, and the branch that handles it takes the lock and stores
\* its record.  cap bounds the consecutive failures of a thread.
AdapterReturns(t, wire, cap) ==
    /\ threads[t].pc = "fetch"
    /\ state_lock = <<>>
    /\ LET th == threads[t]
           out == Fetch(th.be, BaseUrl(th), wire)
           prev == IF th.name \in DOMAIN printer_state
                   THEN Some(printer_state[th.name]) ELSE None
           th2 == AfterFetch(th, out, prev, now)
       IN  /\ out.exc # "none" => th.consecutive_errors < cap
           /\ threads' = [threads EXCEPT ![t] = th2]
           /\ printer_state' = DictSet(printer_state, th.name,
                                       RecordWritten(printer_state, th2, now))
           /\ reader' = IF UpdatesInPlace(printer_state, th2)
                         THEN Mutated(reader, th.name, RecordWritten(printer_state, th2, now))
                         ELSE Rebound(reader, th.name)
    /\ state_lock' = MonLock(t)
    /\ UNCHANGED coreVars

\* a success that leaves the failure bookkeeping as it was
ReleaseOkNoReset(t) ==
    /\ threads[t].pc = "rel_ok"
    /\ state_lock = MonLock(t)
    /\ state_lock' = <<>>
    /\ LET th == threads[t] IN
       threads' = [threads EXCEPT ![t] =
            [th EXCEPT !.pc = "top",
                       !.out = NoOut,
                       !.wake = now + SleepTime(th.poll_interval)]]
    /\ UNCHANGED printer_state
    /\ UNCHANGED monVars

\* lines 229-231 and 339: after a success the lock is released, the failure
\* bookkeeping is reset and the thread sleeps
ReleaseOk(t) ==
    /\ threads[t].pc = "rel_ok"
    /\ state_lock = MonLock(t)
    /\ state_lock' = <<>>
    /\ LET th == threads[t] IN
       threads' = [threads EXCEPT ![t] =
            [th EXCEPT !.pc = "top",
                       !.consecutive_errors = 0,
                       !.last_error_text = None,
                       !.last_error_report_ts = 0,
                       !.out = NoOut,
                       !.wake = now + SleepTime(th.poll_interval)]]
    /\ UNCHANGED printer_state
    /\ UNCHANGED monVars

\* a failure path that goes to sleep with the lock still held
ReleaseFailKeepsLock(t) ==
    /\ threads[t].pc = "rel_fail"
    /\ state_lock = MonLock(t)
    /\ LET th == threads[t] IN
       threads' = [threads EXCEPT ![t] =
            [th EXCEPT !.pc = "top",
                       !.last_error_text = IF ShouldReport(th) THEN Some(th.err) ELSE @,
                       !.last_error_report_ts = IF ShouldReport(th) THEN th.tnow ELSE @,
                       !.out = NoOut,
                       !.err = None,
                       !.tnow = 0,
                       !.wake = now + SleepTime(th.poll_interval)]]
    /\ UNCHANGED <<printer_state, state_lock>>
    /\ UNCHANGED monVars

\* lines 271-278, 329-336 and 339: after a failure the lock is released, the
\* diagnostic is printed unless throttled, and the thread sleeps
ReleaseFail(t) ==
    /\ threads[t].pc = "rel_fail"
    /\ state_lock = MonLock(t)
    /\ state_lock' = <<>>
    /\ LET th == threads[t] IN
       threads' = [threads EXCEPT ![t] =
            [th EXCEPT !.pc = "top",
                       !.last_error_text = IF ShouldReport(th) THEN Some(th.err) ELSE @,
                       !.last_error_report_ts = IF ShouldReport(th) THEN th.tnow ELSE @,
                       !.out = NoOut,
                       !.err = None,
                       !.tnow = 0,
                       !.wake = now + SleepTime(th.poll_interval)]]
    /\ UNCHANGED printer_state
    /\ UNCHANGED monVars

(***************************************************************************)
(* db_watch_loop and start_monitor_threads: the Supervisor                 *)
(***************************************************************************)
supVars == <<registry, settings, stop_evt, now, next_id, edits, reader>>

\* a loop head of the Supervisor that does not look at the stop signal
SupLoadDeaf ==
    /\ sup.pc = "load"
    /\ now >= sup.wake
    /\ sup' = [sup EXCEPT !.pc = "reconcile",
                          !.printers = load_printers_from_db(registry),
                          !.reload_interval = settings.db_reload_interval]
    /\ UNCHANGED <<printer_state, state_lock, threads, nthreads, monitor_threads>>
    /\ UNCHANGED supVars

\* lines 401, 384-400: the sleep returns and the loop head runs; settings and
\* the enabled printers are loaded.  When load_settings_from_db raises
\* ("no_settings") the round is over and the sleep is made of the settings of
\* the round before, or is 30 s when there were none; when
\* load_printers_from_db raises ("no_printers") the round is over as well.
\* sup.reload_interval = 0: no settings have been loaded yet.
SupLoadRead(outcome) ==
    /\ sup.pc = "load"
    /\ now >= sup.wake
    /\ sup' = IF stop_evt
              THEN [sup EXCEPT !.pc = "done"]
              ELSE CASE outcome = "ok" ->
                        [sup EXCEPT !.pc = "reconcile",
                                    !.printers = load_printers_from_db(registry),
                                    !.reload_interval = settings.db_reload_interval]
                     [] outcome = "no_printers" ->
                        [sup EXCEPT !.reload_interval = settings.db_reload_interval,
                                    !.wake = now + Max(MinReloadSleep,
                                                       settings.db_reload_interval)]
                     [] OTHER ->
                        [sup EXCEPT !.wake = now + Max(MinReloadSleep,
                                        IF sup.reload_interval = 0
                                        THEN DefaultReloadInterval
                                        ELSE sup.reload_interval)]
    /\ UNCHANGED <<printer_state, state_lock, threads, nthreads, monitor_threads>>
    /\ UNCHANGED supVars

SupLoad == \E outcome \in {"ok", "no_settings", "no_printers"} : SupLoadRead(outcome)

\* a reconciliation that takes every registered thread for live
HasLiveThreadRegistered(pid) == pid \in DOMAIN monitor_threads

\* a reconciliation that takes every thread for dead
HasLiveThreadNever(pid) == FALSE

\* line 356
HasLiveThread(pid) ==
    /\ pid \in DOMAIN monitor_threads
    /\ is_alive(monitor_threads[pid])

\* lines 354-357: a printer whose thread is alive is skipped
SupSkip ==
    /\ sup.pc = "reconcile"
    /\ sup.printers # <<>>
    /\ HasLiveThread(Head(sup.printers).id)
    /\ sup' = [sup EXCEPT !.printers = Tail(@)]
    /\ UNCHANGED <<printer_state, state_lock, threads, nthreads, monitor_threads>>
    /\ UNCHANGED supVars

\* a reconciliation that starts a thread for a no_scanning printer as well
SupPublishAndSpawn ==
    /\ sup.pc = "reconcile"
    /\ sup.printers # <<>>
    /\ LET prn == Head(sup.printers) IN
        /\ ~HasLiveThread(prn.id)
        /\ prn.no_scanning
        /\ state_lock = <<>>
        /\ state_lock' = SupLock
        /\ printer_state' = DictSet(printer_state, prn.name,
                build_no_scanning_state(prn, prn.name, prn.host, prn.port, prn.https))
        /\ reader' = Rebound(reader, prn.name)
        /\ nthreads < MaxThreads
        /\ nthreads' = nthreads + 1
        /\ threads' = [threads EXCEPT ![nthreads + 1] = NewThread(prn)]
        /\ monitor_threads' = DictSet(monitor_threads, prn.id, nthreads + 1)
    /\ sup' = [sup EXCEPT !.pc = "published"]
    /\ UNCHANGED <<registry, settings, stop_evt, now, next_id, edits>>

\* lines 359-365: a no_scanning printer gets its placeholder, under the lock
SupPublish ==
    /\ sup.pc = "reconcile"
    /\ sup.printers # <<>>
    /\ LET prn == Head(sup.printers) IN
        /\ ~HasLiveThread(prn.id)
        /\ prn.no_scanning
        /\ state_lock = <<>>
        /\ state_lock' = SupLock
        /\ printer_state' = DictSet(printer_state, prn.name,
                build_no_scanning_state(prn, prn.name, prn.host, prn.port, prn.https))
        /\ reader' = Rebound(reader, prn.name)
    /\ sup' = [sup EXCEPT !.pc = "published"]
    /\ UNCHANGED <<threads, nthreads, monitor_threads>>
    /\ UNCHANGED <<registry, settings, stop_evt, now, next_id, edits>>

\* line 366: the lock is released, on to the next printer
SupRelease ==
    /\ sup.pc = "published"
    /\ state_lock = SupLock
    /\ state_lock' = <<>>
    /\ sup' = [sup EXCEPT !.pc = "reconcile", !.printers = Tail(@)]
    /\ UNCHANGED <<printer_state, threads, nthreads, monitor_threads>>
    /\ UNCHANGED supVars

\* lines 368-374: a new thread is started and registered
SupSpawn ==
    /\ sup.pc = "reconcile"
    /\ sup.printers # <<>>
    /\ LET prn == Head(sup.printers) IN
        /\ ~HasLiveThread(prn.id)
        /\ ~prn.no_scanning
        /\ nthreads < MaxThreads
        /\ nthreads' = nthreads + 1
        /\ threads' = [threads EXCEPT ![nthreads + 1] = NewThread(prn)]
        /\ monitor_threads' = DictSet(monitor_threads, prn.id, nthreads + 1)
    /\ sup' = [sup EXCEPT !.printers = Tail(@)]
    /\ UNCHANGED <<printer_state, state_lock>>
    /\ UNCHANGED supVars

\* a Supervisor that an exception of Thread.start() ends
SupAbortDies ==
    /\ sup.pc = "reconcile"
    /\ sup.printers # <<>>
    /\ ~HasLiveThread(Head(sup.printers).id)
    /\ ~Head(sup.printers).no_scanning
    /\ sup' = [sup EXCEPT !.pc = "done"]
    /\ UNCHANGED <<printer_state, state_lock, threads, nthreads, monitor_threads>>
    /\ UNCHANGED supVars

\* lines 368-373, 392-401: Thread.start() raises (no thread can be started);
\* the thread is not registered, the rest of the list is left out, the
\* exception is printed and the Supervisor sleeps (sup.printers keeps what the
\* for loop had not dealt with; the next load replaces it)
SupAbort ==
    /\ sup.pc = "reconcile"
    /\ sup.printers # <<>>
    /\ ~HasLiveThread(Head(sup.printers).id)
    /\ ~Head(sup.printers).no_scanning
    /\ sup' = [sup EXCEPT !.pc = "load",
                          !.wake = now + Max(MinReloadSleep, sup.reload_interval)]
    /\ UNCHANGED <<printer_state, state_lock, threads, nthreads, monitor_threads>>
    /\ UNCHANGED supVars

\* lines 395-401: all printers seen; time.sleep(max(5.0, reload_interval))
SupSleep ==
    /\ sup.pc = "reconcile"
    /\ sup.printers = <<>>
    /\ sup' = [sup EXCEPT !.pc = "load",
                          !.wake = now + Max(MinReloadSleep, sup.reload_interval)]
    /\ UNCHANGED <<printer_state, state_lock, threads, nthreads, monitor_threads>>
    /\ UNCHANGED supVars

(***************************************************************************)
(* printers/routes.py: the edits of the printers table, and the clock      *)
(***************************************************************************)
envVars == <<settings, printer_state, state_lock, threads, nthreads, monitor_threads,
             sup, stop_evt, now, reader>>

\* printer_edit: the UPDATE of one row.  One field changes per edit; an edit
\* of several fields is a run of such edits with no step of the core between.
EditedRows(row) ==
    {[row EXCEPT !.enabled = ~@], [row EXCEPT !.no_scanning = ~@]}
        \cup {[row EXCEPT !.host = h] : h \in Hosts \ {row.host}}
        \cup {[row EXCEPT !.name = n] : n \in Names \ {row.name}}

PrinterEdit(d) ==
    /\ d \in DOMAIN registry
    /\ edits < MaxEdits
    /\ \E row \in EditedRows(registry[d]) :
        /\ registry' = [registry EXCEPT ![d] = row]
        /\ NamesUnique(registry')
    /\ edits' = edits + 1
    /\ UNCHANGED next_id
    /\ UNCHANGED envVars

\* printer_delete: DELETE FROM printers WHERE id = ?
PrinterDelete(d) ==
    /\ d \in DOMAIN registry
    /\ edits < MaxEdits
    /\ registry' = DictPop(registry, d)
    /\ edits' = edits + 1
    /\ UNCHANGED next_id
    /\ UNCHANGED envVars

\* printer_new: INSERT ... enabled = 1, with the next AUTOINCREMENT id
PrinterNew ==
    /\ next_id \in Devices
    /\ edits < MaxEdits
    /\ \E n \in Names, ns \in BOOLEAN :
        /\ registry' = DictSet(registry, next_id, NewRow(n, "centauri", "h1", ns))
        /\ NamesUnique(registry')
    /\ next_id' = next_id + 1
    /\ edits' = edits + 1
    /\ UNCHANGED envVars

\* time passes, up to limit
ClockAdvances(limit) ==
    /\ now + ClockStep <= limit
    /\ now' = now + ClockStep
    /\ UNCHANGED <<registry, settings, printer_state, state_lock, threads, nthreads,
                   monitor_threads, sup, stop_evt, next_id, edits, reader>>

Tick == ClockAdvances(MaxNow)

\* the process shuts down: global_stop_evt.set()
SetStop ==
    /\ ~stop_evt
    /\ stop_evt' = TRUE
    /\ UNCHANGED <<registry, settings, printer_state, state_lock, threads, nthreads,
                   monitor_threads, sup, now, next_id, edits, reader>>

\* the settings page saves another poll interval (any value above 0 is
\* accepted): 0.1 s, 2 s, 5 s or 10 s
SettingsSave ==
    /\ edits < MaxSaves
    /\ edits' = edits + 1
    /\ \E p \in {1, 20, DefaultPollInterval, 100} \ {settings.poll_interval} :
          settings' = [settings EXCEPT !.poll_interval = p]
    /\ UNCHANGED <<registry, printer_state, state_lock, threads, nthreads,
                   monitor_threads, sup, stop_evt, now, next_id, reader>>

(***************************************************************************)
(* Start of the process: create_initial_state and start_monitor_threads on *)
(* the printers loaded at start, then the watcher thread                   *)
(***************************************************************************)
RECURSIVE create_initial_state(_, _)
create_initial_state(printers, t) ==
    IF printers = <<>> THEN EmptyDict
    ELSE LET prn == Head(printers)
             rest == create_initial_state(Tail(printers), t)
         IN  DictSet(rest, prn.name,
                     IF prn.no_scanning
                     THEN build_no_scanning_state(prn, prn.name, prn.host, prn.port, prn.https)
                     ELSE InitialRecord(prn, t))

\* the printers that get a thread at start, in the order of the list
Polled(printers) == SelectSeq(printers, LAMBDA prn : ~prn.no_scanning)

\* the state after the start sequence has run on the printers table reg
Started(reg) ==
    /\ registry = reg
    /\ settings = [poll_interval |-> DefaultPollInterval, db_reload_interval |-> MinReloadSleep]
    /\ now = StartTime
    /\ LET printers == load_printers_from_db(reg)
           polled == Polled(printers)
       IN  /\ printer_state = create_initial_state(printers, StartTime)
           /\ nthreads = Len(polled)
           /\ threads = [t \in ThreadIds |->
                            IF t <= Len(polled) THEN NewThread(polled[t]) ELSE UnbornThread]
           /\ monitor_threads = [pid \in {polled[i].id : i \in 1..Len(polled)} |->
                                    CHOOSE i \in 1..Len(polled) : polled[i].id = pid]
    /\ state_lock = <<>>
    /\ sup = [pc |-> "load", printers |-> <<>>, reload_interval |-> 0, wake |-> 0]
    /\ stop_evt = FALSE
    /\ next_id = Cardinality(DOMAIN reg) + 1
    /\ edits = 0
    /\ reader = IdleReader

OneRow == [d \in {1} |-> NewRow("A", "moonraker", "h1", FALSE)]
TwoRows(b1, b2, ns2) ==
    [d \in {1, 2} |-> IF d = 1 THEN NewRow("A", b1, "h1", FALSE)
                      ELSE NewRow("B", b2, "h1", ns2)]

\* Spec starts with one polled printer; a second one is absent or no_scanning
InitRegistries == {OneRow, TwoRows("moonraker", "octoprint", TRUE)}

Init == \E reg \in InitRegistries : Started(reg)

\* the wire conditions the adapters meet under Spec
LifeWires == {Answer(Printing), Refused, Garbled}

Monitor(t) ==
    \/ MonitorLoopTop(t)
    \/ MonitorPop(t)
    \/ MonitorNoScan(t)
    \/ MonitorExit(t)
    \/ \E wire \in LifeWires : AdapterReturns(t, wire, MaxErrors)
    \/ ReleaseOk(t)
    \/ ReleaseFail(t)

Supervisor ==
    \/ SupLoad
    \/ SupSkip
    \/ SupPublish
    \/ SupRelease
    \/ SupSpawn
    \/ SupSleep

Registry ==
    \/ \E d \in Devices : PrinterEdit(d)
    \/ \E d \in Devices : PrinterDelete(d)
    \/ PrinterNew

\* the running process: Monitors, Supervisor, edits of the printers table
Next ==
    \/ \E t \in ThreadIds : Monitor(t)
    \/ Supervisor
    \/ Registry
    \/ Tick

Spec == Init /\ [][Next]_vars

(***************************************************************************)
(* SpecPoll: two polled printers, a Moonraker or OctoPrint one and a       *)
(* Centauri one, polling side by side on every wire condition; the         *)
(* printers table is left alone.                                           *)
(***************************************************************************)
InitPoll ==
    \E b1 \in {"moonraker", "octoprint"} : Started(TwoRows(b1, "centauri", FALSE))

Poller(t) ==
    \/ MonitorLoopTop(t)
    \/ \E wire \in Wires : AdapterReturns(t, wire, PollErrors)
    \/ ReleaseOk(t)
    \/ ReleaseFail(t)

PollTick == ClockAdvances(PollMaxNow)

NextPoll ==
    \/ \E t \in ThreadIds : Poller(t)
    \/ PollTick

SpecPoll == InitPoll /\ [][NextPoll]_vars

(***************************************************************************)
(* SpecThrottle: two printers whose every poll fails (no connection, or an *)
(* answer of an unexpected shape), polled at the cadence of the poll       *)
(* interval until the process is stopped: the clock advances only while    *)
(* every Monitor sleeps.                                                   *)
(***************************************************************************)
InitThrottle ==
    \E b2 \in {"octoprint", "centauri"} : Started(TwoRows("moonraker", b2, FALSE))

AllAsleep ==
    \A t \in ThreadIds : is_alive(t) => (threads[t].pc = "top" /\ threads[t].wake > now)

Refuser(t) ==
    \/ MonitorLoopTop(t)
    \/ \E wire \in {Refused, Garbled} : AdapterReturns(t, wire, ThrottleTicks + 1)
    \/ ReleaseFail(t)

SleepTick == AllAsleep /\ ClockAdvances(ThrottleMaxNow)

NextThrottle ==
    \/ \E t \in ThreadIds : Refuser(t)
    \/ SleepTick
    \/ SetStop

SpecThrottle == InitThrottle /\ [][NextThrottle]_vars

(***************************************************************************)
(* SpecRead: requests of /api/status while the Monitors of the printers    *)
(* loaded at start poll; the printers table is left alone.                 *)
(***************************************************************************)
\* lines 15-17: with state_lock: the list of the stored dicts, sorted by key
ReaderSnapshot ==
    /\ reader.pc = "idle"
    /\ state_lock = <<>>
    /\ reader' = [pc |-> "serialize", rows |-> sorted_printer_rows(printer_state)]
    /\ UNCHANGED <<printer_state, state_lock, threads>>
    /\ UNCHANGED coreVars

\* line 36: jsonify reads the dicts of the list; the request ends
ReaderSerialize ==
    /\ reader.pc = "serialize"
    /\ reader' = IdleReader
    /\ UNCHANGED <<printer_state, state_lock, threads>>
    /\ UNCHANGED coreVars

\* no enabled row; two rows whose names are not in the order of their ids
NoRows == [d \in {1} |-> [NewRow("A", "moonraker", "h1", FALSE) EXCEPT !.enabled = FALSE]]
SwappedRows ==
    [d \in {1, 2} |-> IF d = 1 THEN NewRow("B", "centauri", "h1", FALSE)
                      ELSE NewRow("A", "octoprint", "h1", TRUE)]

InitRead ==
    \E reg \in {NoRows, OneRow, SwappedRows, TwoRows("moonraker", "centauri", FALSE)} :
        Started(reg)

ReadPoller(t) ==
    \/ MonitorLoopTop(t)
    \/ \E wire \in LifeWires : AdapterReturns(t, wire, ReadErrors)
    \/ ReleaseOk(t)
    \/ ReleaseFail(t)

ReadTick == ClockAdvances(ReadMaxNow)

NextRead ==
    \/ \E t \in ThreadIds : ReadPoller(t)
    \/ ReaderSnapshot
    \/ ReaderSerialize
    \/ ReadTick

SpecRead == InitRead /\ [][NextRead]_vars

(***************************************************************************)
(* SpecValues: one printer of each kind of backend, polled with answers    *)
(* that cover the states a device reports and the ranges of progress and   *)
(* print time.                                                             *)
(***************************************************************************)
ValueRow(b) == [d \in {1} |-> NewRow("A", b, "h1", FALSE)]

\* states as the three kinds of device report them
ValueReports ==
    {Report(Some("standby"), Tx.operational, 0, 0),
     Report(Some("printing"), Tx.printing, 1, 0),
     Report(Some("paused"), Tx.paused, 2, 0),
     Report(Some("cancelled"), Tx.cancelling, 3, 0),
     Report(Some("complete"), Tx.finishing, 4, 0),
     Report(Some("error"), Tx.offline_after_error, 7, 0),
     Report(None, <<>>, 0, 0),
     Report(Some("printing"), Tx.in_progress, 1, 0),
     Report(Some("paused"), Tx.paused_printing, 2, 0),
     Report(Some("cancelled"), Tx.cancelled_error, 3, 0),
     Report(Some("complete"), Tx.finished, 4, 0),
     Report(Some("complete"), Tx.done_offline, 4, 0),
     Report(Some("error"), Tx.closed, 7, 0),
     Report(Some("printing"), Tx.printing, 0, 600)}

\* progress (1/10000) and print time (s)
ValueMeasures ==
    {[progress |-> 0, elapsed |-> 0],
     [progress |-> 0, elapsed |-> 600],
     [progress |-> 2500, elapsed |-> 0],
     [progress |-> 2500, elapsed |-> 600],
     [progress |-> 4000, elapsed |-> 120],
     [progress |-> 0, elapsed |-> 120],
     [progress |-> 10000, elapsed |-> 600],
     [progress |-> 1234, elapsed |-> 45],
     [progress |-> 9996, elapsed |-> 125],
     [progress |-> 5000, elapsed |-> 3725],
     [progress |-> 0, elapsed |-> 3725],
     [progress |-> 14000, elapsed |-> 45],
     [progress |-> -2000, elapsed |-> 125]}

ValueSample(st, m) ==
    [Printing EXCEPT !.state = st, !.progress = m.progress, !.elapsed = m.elapsed]

\* Centauri polls that get through several endpoint paths
PathWires ==
    {[Answer(Printing) EXCEPT !.paths = <<"refused", "recv_error", "timeout", "status">>],
     [Refused EXCEPT !.paths = <<"recv_error", "timeout", "refused", "timeout", "recv_error">>],
     [Garbled EXCEPT !.paths = <<"timeout", "refused", "bad_value">>]}

\* answers with values that are no numbers in one or two numeric fields
ValueWires ==
    {Answer(ValueSample(st, m)) : st \in ValueReports, m \in ValueMeasures}
        \cup {Refused} \cup PathWires
        \cup {Answer([Printing EXCEPT !.bad = b]) :
                    b \in {{"elapsed"}, {"progress"}, {"hotend_t"}, {"hotend", "bed"}}}

InitValues == \E b \in {"moonraker", "octoprint", "centauri"} : Started(ValueRow(b))

ValuePoller(t) ==
    \/ MonitorLoopTop(t)
    \/ \E wire \in ValueWires : AdapterReturns(t, wire, ValueErrors)
    \/ ReleaseOk(t)
    \/ ReleaseFail(t)

ValueTick == ClockAdvances(ValueMaxNow)

NextValues ==
    \/ \E t \in ThreadIds : ValuePoller(t)
    \/ ValueTick

SpecValues == InitValues /\ [][NextValues]_vars

(***************************************************************************)
(* SpecInterval: one device of each kind is polled while the poll interval *)
(* is changed on the settings page.                                        *)
(***************************************************************************)
NextInterval ==
    \/ \E t \in ThreadIds : ReadPoller(t)
    \/ SettingsSave
    \/ ValueTick

SpecInterval == InitValues /\ [][NextInterval]_vars

(***************************************************************************)
(* SpecFaults: the Supervisor at work while printers are added, the        *)
(* database fails to answer and threads fail to start.                     *)
(***************************************************************************)
NextFaults ==
    \/ \E t \in ThreadIds : ReadPoller(t)
    \/ Supervisor
    \/ SupAbort
    \/ PrinterNew
    \/ Tick

SpecFaults == Init /\ [][NextFaults]_vars

(***************************************************************************)
(* SpecStop: the process from its start to its end.  The Monitors poll and *)
(* the Supervisor reconciles until the stop signal is set at some moment;  *)
(* after it, time goes on for as long as a thread sleeps.  Every thread    *)
(* that can take a step takes one in the end (the adapter calls return or  *)
(* time out, the lock is released, a sleep ends).                          *)
(***************************************************************************)
\* a Monitor or the Supervisor is in time.sleep()
SomeoneAsleep ==
    \/ \E t \in ThreadIds : is_alive(t) /\ threads[t].pc = "top" /\ threads[t].wake > now
    \/ sup.pc = "load" /\ sup.wake > now

StopTick ==
    ClockAdvances(IF stop_evt /\ SomeoneAsleep THEN now + ClockStep ELSE ReadMaxNow)

NextStop ==
    \/ \E t \in ThreadIds : ReadPoller(t)
    \/ Supervisor
    \/ SetStop
    \/ StopTick

SpecStop ==
    /\ Init
    /\ [][NextStop]_vars
    /\ \A t \in ThreadIds : WF_vars(ReadPoller(t))
    /\ WF_vars(Supervisor)
    /\ WF_vars(StopTick)

(***************************************************************************)
(* Properties                                                              *)
(***************************************************************************)
\* the printers table holds no enabled row of device d
GoneRow(d) == d \notin DOMAIN registry \/ ~registry[d].enabled

\* thread t steps from control point a to control point b
Moves(t, a, b) == threads[t].pc = a /\ threads'[t].pc = b

\* the loop head of thread t runs
LeavesTop(t) == threads[t].pc = "top" /\ threads'[t] # threads[t]

\* the keys of the records of device d
RecordsOf(ps, d) == {k \in DOMAIN ps : ps[k].id = d}

\* a record with empty filename and all metrics zero
Zeroed(rec) ==
    /\ rec.filename = ""
    /\ rec.progress_pct = 0
    /\ rec.elapsed_s = Rat(0)
    /\ rec.eta_s = Rat(0)
    /\ rec.hotend = Some(0)
    /\ rec.hotend_t = Some(0)
    /\ rec.bed = Some(0)
    /\ rec.bed_t = Some(0)

IdentityFields == {"id", "name", "backend", "host"}

C3_LockOnlyAroundStoreAccess ==
    /\ \A t \in ThreadIds :
        state_lock = MonLock(t)
            => threads[t].pc \in {"pop_rel", "ns_rel", "rel_ok", "rel_fail"}
    /\ state_lock = SupLock => sup.pc = "published"

\* one Monitor is inside its adapter call while another holds the lock for the
\* record it has just stored
C3_Witness ==
    \E t1, t2 \in ThreadIds :
        /\ t1 # t2
        /\ threads[t1].pc = "fetch"
        /\ threads[t2].pc \in {"rel_ok", "rel_fail"}
        /\ state_lock = MonLock(t2)

\* the failure handling of thread t takes a step
FailureStep(t) == Moves(t, "fetch", "rel_fail") \/ Moves(t, "rel_fail", "top")

\* C4: the failure handling of a Monitor changes no locals of another Monitor,
\* no record under another key, and nothing of the Supervisor, the thread
\* table, the printers table, the settings and the stop signal.
C4_FailureTouchesOnlyOwn ==
    [][\A t \in ThreadIds :
        FailureStep(t) =>
            /\ \A u \in ThreadIds \ {t} : threads'[u] = threads[u]
            /\ \A k \in DOMAIN printer_state \ {threads[t].name} :
                    k \in DOMAIN printer_state' /\ printer_state'[k] = printer_state[k]
            /\ DOMAIN printer_state' \subseteq DOMAIN printer_state \cup {threads[t].name}
            /\ sup' = sup
            /\ monitor_threads' = monitor_threads
            /\ nthreads' = nthreads
            /\ registry' = registry
            /\ settings' = settings
            /\ stop_evt' = stop_evt
      ]_vars

\* a Monitor has just stored a failure while the record of another live Monitor
\* shows a print
C4_Witness ==
    \E t, u \in ThreadIds :
        /\ t # u
        /\ threads[t].pc = "rel_fail"
        /\ printer_state[threads[t].name].state \in {"offline", "error"}
        /\ is_alive(u)
        /\ threads[u].name \in DOMAIN printer_state
        /\ printer_state[threads[u].name].state = "printing"

\* C5 as stated: of a device that refuses every poll, the diagnostic printed
\* last is the one of the first failure (at the start time) for as long as the
\* throttle window that began then has not ended.
C5_OneDiagnosticPerWindow ==
    \A t \in ThreadIds :
        (/\ threads[t].pc = "top"
         /\ threads[t].consecutive_errors >= 1
         /\ now < StartTime + threads[t].err_interval)
            => threads[t].last_error_report_ts = StartTime

C8_UnreachableWritesOffline ==
    [][\A t \in ThreadIds :
        (Moves(t, "fetch", "rel_fail") /\ threads'[t].out.exc = "RequestException")
            => LET rec == printer_state'[threads[t].name] IN
               /\ threads'[t].consecutive_errors = threads[t].consecutive_errors + 1
               /\ rec.state = "offline"
               /\ Zeroed(rec)
               /\ rec.error = Some(threads'[t].err)
               /\ threads'[t].err # None
               /\ threads[t].name \in DOMAIN printer_state =>
                    \A f \in IdentityFields : rec[f] = printer_state[threads[t].name][f]
      ]_vars

\* an offline record whose host is the previous record's, not the Monitor's
C8_Witness ==
    \E t \in ThreadIds :
        /\ threads[t].pc = "rel_fail"
        /\ threads[t].out.exc = "RequestException"
        /\ printer_state[threads[t].name].state = "offline"
        /\ printer_state[threads[t].name].host # threads[t].host

\* C9: a successful poll stores a record made of the Monitor's own identity and
\* the adapter's result with error null, and the release that follows sets the
\* counter of consecutive errors to 0 and forgets the last error text, however
\* many failures came before.
C9_SuccessRewritesAndResets ==
    [][\A t \in ThreadIds :
        /\ Moves(t, "fetch", "rel_ok") =>
            LET rec == printer_state'[threads[t].name]
                res == threads'[t].out.res
            IN  /\ DOMAIN rec = DOMAIN InitialRecord(threads[t].prn, 0)
                /\ rec.error = None
                /\ rec.no_scanning = FALSE
                /\ rec.id = threads[t].prn.id
                /\ rec.name = threads[t].name
                /\ rec.backend = threads[t].be
                /\ rec.host = threads[t].host
                /\ rec.state = res.state
                /\ rec.filename = res.filename
                /\ rec.hotend = Some(res.hotend)
                /\ rec.bed = Some(res.bed)
                /\ rec.last_update = now \div 10
        /\ Moves(t, "rel_ok", "top") =>
            /\ threads'[t].consecutive_errors = 0
            /\ threads'[t].last_error_text = None
      ]_vars

\* a success after two failures in a row
C9_Witness ==
    \E t \in ThreadIds :
        /\ threads[t].pc = "rel_ok"
        /\ threads[t].consecutive_errors >= 2
        /\ printer_state[threads[t].name].error = None
        /\ printer_state[threads[t].name].state = "printing"

\* C10 as stated: a device whose row is disabled or deleted and that has no
\* live Monitor (nothing is left to remove a record of it) has no record in
\* the Store.
C10_NoRecordOfGoneDevice ==
    \A d \in Devices :
        (GoneRow(d) /\ ~(\E t \in ThreadIds : is_alive(t) /\ threads[t].prn.id = d))
            => RecordsOf(printer_state, d) = {}

\* device d has a live Monitor thread
LiveFor(d) == \E t \in ThreadIds : is_alive(t) /\ threads[t].prn.id = d

\* the Supervisor deals with the next printer of the list it loaded
SupVisits == sup.pc = "reconcile" /\ sup.printers # <<>> /\ sup' # sup

C12_StopsOnlyByOwnDecision ==
    [][\A t \in ThreadIds :
        LET pid == threads[t].prn.id
            pc == threads[t].pc
            pc2 == threads'[t].pc
        IN  /\ (is_alive(t) /\ pc2 = "done")
                => \/ pc = "top" /\ stop_evt
                   \/ pc \in {"pop_rel", "ns_rel"}
            /\ (pc2 = "pop" /\ pc # "pop") => (pc = "top" /\ ~stop_evt /\ GoneRow(pid))
            /\ (pc2 = "ns" /\ pc # "ns")
                => (pc = "top" /\ ~stop_evt /\ ~GoneRow(pid) /\ registry[pid].no_scanning)
            /\ (pc2 = "pop_rel" /\ pc # "pop_rel") => pc = "pop"
            /\ (pc2 = "ns_rel" /\ pc # "ns_rel") => pc = "ns"
            /\ (is_alive(t) /\ sup' # sup) => threads'[t] = threads[t]
      ]_vars

\* one Monitor has exited while another, after a failed poll, is inside its
\* next adapter call
C12_Witness ==
    \E t1, t2 \in ThreadIds :
        /\ threads[t1].pc = "done"
        /\ threads[t2].pc = "fetch"
        /\ threads[t2].consecutive_errors >= 1

\* the connection parameters of the row of device d
RowUrl(d) == <<Scheme(registry[d].https), registry[d].host, registry[d].port>>

\* C13 as stated: when the loop head of a Monitor has read the row of its
\* device and goes on to the adapter call, the call is made with the host,
\* port and TLS flag the row holds.
C13_CallUsesEditedConnection ==
    [][\A t \in ThreadIds :
        (LeavesTop(t) /\ threads'[t].pc = "fetch" /\ threads'[t].row_ok)
            => BaseUrl(threads'[t]) = RowUrl(threads[t].prn.id)
      ]_vars

\* C14 as stated: every record of the list a request got under the lock holds,
\* for as long as the request has it, what it held when the list was made.
C14_SnapshotNeverChanges ==
    reader.pc = "serialize" =>
        \A i \in DOMAIN reader.rows : reader.rows[i].rec = reader.rows[i].was

\* the fields of a canonical status record
CanonicalFields ==
    {"id", "name", "backend", "host", "state", "filename", "progress_pct",
     "elapsed_s", "eta_s", "elapsed_hms", "eta_hms", "hotend", "hotend_t",
     "bed", "bed_t", "last_update", "error", "link", "tasmota_host", "no_scanning"}

\* C15 as stated: every record of the Store holds all canonical fields, whatever
\* the backend and also when a failed poll made the record of a device that had
\* none.
C15_EveryRecordIsCanonical ==
    \A k \in DOMAIN printer_state : CanonicalFields \subseteq DOMAIN printer_state[k]

\* the lifecycle states
LifecycleStates ==
    {"standby", "printing", "paused", "cancelled", "complete", "error", "offline",
     "no_scanning"}

\* C16 as stated: the state of every record of the Store is one of the lifecycle
\* states, whatever state text or status code the device of a Monitor reports.
C16_StateIsLifecycleState ==
    \A k \in DOMAIN printer_state :
        "state" \in DOMAIN printer_state[k] => printer_state[k].state \in LifecycleStates

\* name a comes before name b in the order of str
NameBefore(a, b) == <<a, b>> \in {<<"A", "B">>}

\* C17: the list a request of /api/status gets has exactly one row for every key
\* of the Store, the row holds the record stored under the key, and the rows are
\* in ascending order of the device names.
C17_OneRowPerKeyByName ==
    [][(reader.pc = "idle" /\ reader'.pc = "serialize") =>
        LET rows == reader'.rows
        IN  /\ Len(rows) = Cardinality(DOMAIN printer_state)
            /\ {rows[i].key : i \in DOMAIN rows} = DOMAIN printer_state
            /\ \A i \in DOMAIN rows :
                /\ rows[i].rec = printer_state[rows[i].key]
                /\ rows[i].rec.name = rows[i].key
            /\ \A i, j \in DOMAIN rows :
                i < j => NameBefore(rows[i].rec.name, rows[j].rec.name)]_vars

\* a request holds a list of two rows whose order is not the order of the ids
C17_Witness ==
    /\ reader.pc = "serialize"
    /\ Len(reader.rows) = 2
    /\ reader.rows[1].rec.id > reader.rows[2].rec.id
    /\ NameBefore(reader.rows[1].key, reader.rows[2].key)

\* a successful poll of thread t stores its record in this step
Succeeds(t) == Moves(t, "fetch", "rel_ok")

Abs(n) == IF n >= 0 THEN n ELSE -n

\* C18: progress_pct of every record is between 0 and 100; a successful poll
\* stores the tenth of a percent nearest to 100 times the progress limited to
\* [0, 1]: 0 for a negative progress, 100.0 for a progress of 1 or more (1.4).
C18_ProgressPctClampedAndRounded ==
    /\ [](\A k \in DOMAIN printer_state :
            "progress_pct" \in DOMAIN printer_state[k]
                => printer_state[k].progress_pct \in 0..1000)
    /\ [][\A t \in ThreadIds :
            Succeeds(t) =>
                LET pct == printer_state'[threads[t].name].progress_pct
                    p == threads'[t].out.res.progress
                    clamped == IF p < 0 THEN 0 ELSE IF p > ProgScale THEN ProgScale ELSE p
                IN  /\ pct \in 0..1000
                    /\ 2 * Abs(pct * ProgScale - clamped * 1000) <= ProgScale
                    /\ p <= 0 => pct = 0
                    /\ p >= ProgScale => pct = 1000
                    /\ p = 14000 => pct = 1000]_vars

\* a poll has stored 100.0 for a progress of 1.4
C18_Witness ==
    \E t \in ThreadIds :
        /\ threads[t].pc = "rel_ok"
        /\ threads[t].out.res.progress = 14000
        /\ printer_state[threads[t].name].progress_pct = 1000

\* rational numbers <<numerator, denominator>> with denominator > 0
RECURSIVE Gcd(_, _)
Gcd(a, b) == IF b = 0 THEN a ELSE Gcd(b, a % b)
RatNorm(r) ==
    LET g == Gcd(Abs(r[1]), r[2])
    IN  <<r[1] \div g, r[2] \div g>>
RatEq(a, b) == RatNorm(a) = RatNorm(b)
RatInv(r) == RatNorm(<<r[2], r[1]>>)
RatSub(a, b) == RatNorm(<<a[1] * b[2] - b[1] * a[2], a[2] * b[2]>>)
RatMul(a, b) == RatNorm(<<a[1] * b[1], a[2] * b[2]>>)

\* C19: a successful poll with progress p in [0, 1] and print time e >= 0 stores
\* eta_s = e * (1/p - 1) when p > 0 and e > 0, and 0 otherwise; p = 0.25 and
\* e = 600 give 1800.
C19_EtaIsRemainingTime ==
    [][\A t \in ThreadIds :
        LET res == threads'[t].out.res IN
        (Succeeds(t) /\ res.progress \in 0..ProgScale /\ res.elapsed >= 0) =>
            LET eta == printer_state'[threads[t].name].eta_s
                p == <<res.progress, ProgScale>>
                e == <<res.elapsed, 1>>
            IN  /\ (res.progress > 0 /\ res.elapsed > 0)
                    => RatEq(eta, RatMul(e, RatSub(RatInv(p), <<1, 1>>)))
                /\ ~(res.progress > 0 /\ res.elapsed > 0) => RatEq(eta, <<0, 1>>)
                /\ (res.progress = 2500 /\ res.elapsed = 600) => RatEq(eta, <<1800, 1>>)]_vars

\* a poll with progress 0.25 after 600 s has stored an eta_s of 1800
C19_Witness ==
    \E t \in ThreadIds :
        /\ threads[t].pc = "rel_ok"
        /\ threads[t].out.res.progress = 2500
        /\ threads[t].out.res.elapsed = 600
        /\ RatEq(printer_state[threads[t].name].eta_s, <<1800, 1>>)

\* reading a duration text: the number a sequence of digits stands for
IsDigits(ds) == \A i \in DOMAIN ds : \E j \in DOMAIN DigitChars : DigitChars[j] = ds[i]
RECURSIVE NumVal(_)
NumVal(ds) ==
    IF ds = <<>> THEN 0
    ELSE NumVal(SubSeq(ds, 1, Len(ds) - 1)) * 10
         + (CHOOSE v \in 0..9 : DigitChars[v + 1] = ds[Len(ds)])

\* txt is "MM:SS min" with the numbers m and sec
MinForm(txt, m, sec) ==
    /\ Len(txt) = 9
    /\ IsDigits(SubSeq(txt, 1, 2)) /\ NumVal(SubSeq(txt, 1, 2)) = m
    /\ txt[3] = ":"
    /\ IsDigits(SubSeq(txt, 4, 5)) /\ NumVal(SubSeq(txt, 4, 5)) = sec
    /\ SubSeq(txt, 6, 9) = <<" ", "m", "i", "n">>

\* txt is "H:MM:SS h" with the numbers h, m and sec; H has no leading zero
HourForm(txt, h, m, sec) ==
    LET n == Len(txt) IN
    /\ n >= 9
    /\ txt[1] # "0"
    /\ IsDigits(SubSeq(txt, 1, n - 8)) /\ NumVal(SubSeq(txt, 1, n - 8)) = h
    /\ txt[n - 7] = ":"
    /\ IsDigits(SubSeq(txt, n - 6, n - 5)) /\ NumVal(SubSeq(txt, n - 6, n - 5)) = m
    /\ txt[n - 4] = ":"
    /\ IsDigits(SubSeq(txt, n - 3, n - 2)) /\ NumVal(SubSeq(txt, n - 3, n - 2)) = sec
    /\ SubSeq(txt, n - 1, n) = <<" ", "h">>

\* C20: the text of a duration of s whole seconds, s >= 0, is "H:MM:SS h" when
\* h = s div 3600 is more than 0 and "MM:SS min" otherwise, with
\* m = (s mod 3600) div 60 and sec = s mod 60; 45 gives "00:45 min", 125 gives
\* "02:05 min" and 3725 gives "1:02:05 h".  Checked on the elapsed_hms a
\* successful poll stores for its print time.
C20_DurationText ==
    [][\A t \in ThreadIds :
        LET s == threads'[t].out.res.elapsed IN
        (Succeeds(t) /\ s >= 0) =>
            LET txt == printer_state'[threads[t].name].elapsed_hms
                h == s \div 3600
                m == (s % 3600) \div 60
                sec == s % 60
            IN  /\ h > 0 => HourForm(txt, h, m, sec)
                /\ h = 0 => MinForm(txt, m, sec)
                /\ s = 45 => txt = <<"0", "0", ":", "4", "5", " ", "m", "i", "n">>
                /\ s = 125 => txt = <<"0", "2", ":", "0", "5", " ", "m", "i", "n">>
                /\ s = 3725 => txt = <<"1", ":", "0", "2", ":", "0", "5", " ", "h">>]_vars

\* a poll after 3725 s of printing has stored the text "1:02:05 h"
C20_Witness ==
    \E t \in ThreadIds :
        /\ threads[t].pc = "rel_ok"
        /\ threads[t].out.res.elapsed = 3725
        /\ printer_state[threads[t].name].elapsed_hms = <<"1", ":", "0", "2", ":", "0", "5", " ", "h">>

\* the text txt holds one of the words ws, whatever the case of its letters
HasWord(txt, ws) == \E w \in ws : contains(w, lower(txt))

\* C21: a successful poll of an OctoPrint device stores the state the first
\* matching rule gives for the job text, letters compared without case:
\* "printing" / "in progress", then "paused", then "cancelling" / "cancelled",
\* then "complete" / "finished" / "done", then "error" / "offline" / "closed",
\* else standby.
C21_OctoPrintStateRules ==
    [][\A t \in ThreadIds :
        (Succeeds(t) /\ threads[t].be = "octoprint") =>
            LET txt == threads'[t].out.raw.state.octoprint
                state == printer_state'[threads[t].name].state
                r1 == HasWord(txt, {<<"p", "r", "i", "n", "t", "i", "n", "g">>, <<"i", "n", " ", "p", "r", "o", "g", "r", "e", "s", "s">>})
                r2 == HasWord(txt, {<<"p", "a", "u", "s", "e", "d">>})
                r3 == HasWord(txt, {<<"c", "a", "n", "c", "e", "l", "l", "i", "n", "g">>, <<"c", "a", "n", "c", "e", "l", "l", "e", "d">>})
                r4 == HasWord(txt, {<<"c", "o", "m", "p", "l", "e", "t", "e">>, <<"f", "i", "n", "i", "s", "h", "e", "d">>, <<"d", "o", "n", "e">>})
                r5 == HasWord(txt, {<<"e", "r", "r", "o", "r">>, <<"o", "f", "f", "l", "i", "n", "e">>, <<"c", "l", "o", "s", "e", "d">>})
            IN  /\ r1 => state = "printing"
                /\ (~r1 /\ r2) => state = "paused"
                /\ (~r1 /\ ~r2 /\ r3) => state = "cancelled"
                /\ (~r1 /\ ~r2 /\ ~r3 /\ r4) => state = "complete"
                /\ (~r1 /\ ~r2 /\ ~r3 /\ ~r4 /\ r5) => state = "error"
                /\ (~r1 /\ ~r2 /\ ~r3 /\ ~r4 /\ ~r5) => state = "standby"
                /\ txt = <<"P", "r", "i", "n", "t", "i", "n", "g">> => state = "printing"
                /\ txt = <<"O", "p", "e", "r", "a", "t", "i", "o", "n", "a", "l">> => state = "standby"
                /\ txt = <<"O", "f", "f", "l", "i", "n", "e", " ", "a", "f", "t", "e", "r", " ", "e", "r", "r", "o", "r">> => state = "error"
                /\ txt = <<"C", "a", "n", "c", "e", "l", "l", "i", "n", "g">> => state = "cancelled"]_vars

\* an OctoPrint poll has stored printing for a text that also holds "paused"
C21_Witness ==
    \E t \in ThreadIds :
        /\ threads[t].pc = "rel_ok"
        /\ threads[t].be = "octoprint"
        /\ threads[t].out.raw.state.octoprint = <<"P", "a", "u", "s", "e", "d", ",", " ", "w", "a", "s", " ", "p", "r", "i", "n", "t", "i", "n", "g">>
        /\ printer_state[threads[t].name].state = "printing"

\* C22 as stated: whatever status code a Centauri device reports, a successful
\* poll stores printing when 0 < progress < 1, and complete when progress >= 1
\* or the print time has reached a total time above 0.
C22_CentauriForcedByProgress ==
    [][\A t \in ThreadIds :
        (Succeeds(t) /\ threads[t].be \in CentauriNames) =>
            LET res == threads'[t].out.res
                total == threads'[t].out.raw.state.centauri.TotalTicks
                state == printer_state'[threads[t].name].state
            IN  /\ (0 < res.progress /\ res.progress < ProgScale) => state = "printing"
                /\ (res.progress >= ProgScale \/ (total > 0 /\ res.elapsed >= total))
                        => state = "complete"]_vars

\* C23 as stated: a successful Centauri poll whose state is standby after the
\* status table and the rules of progress stores printing when the device names
\* a file and the print time or the raw progress is above 0, whatever the record
\* before was.
C23_CentauriForcedByFile ==
    [][\A t \in ThreadIds :
        (Succeeds(t) /\ threads[t].be \in CentauriNames) =>
            LET res == threads'[t].out.res
                raw == threads'[t].out.raw
                total == raw.state.centauri.TotalTicks
                state == printer_state'[threads[t].name].state
            IN  ( /\ raw.state.centauri.Status \notin 1..4
                  /\ res.progress = 0
                  /\ ~(total > 0 /\ res.elapsed >= total)
                  /\ res.filename # ""
                  /\ (res.elapsed > 0 \/ raw.progress > 0) )
                    => state = "printing"]_vars

\* the adapter call of thread t returns or raises in this step
CallEnds(t) == threads[t].pc = "fetch" /\ threads'[t].pc \in {"rel_ok", "rel_fail"}

\* C24: when a call of the Centauri adapter returns or raises, every WebSocket
\* it opened has been closed: after a Status frame, a read error, a timeout, a
\* conversion error and on the way to the next endpoint path.  A path whose
\* connection fails has no socket.
C24_EverySocketClosed ==
    [][\A t \in ThreadIds :
        (CallEnds(t) /\ threads[t].be \in CentauriNames) =>
            LET out == threads'[t].out
                paths == out.paths
            IN  /\ out.closed = out.opened
                /\ \A i \in DOMAIN paths :
                    (paths[i] # "refused"
                        /\ \A j \in 1..(i - 1) : paths[j] \notin {"status", "bad_value"})
                            => i \in out.opened]_vars

\* a Centauri call has ended by a conversion error after a timeout on an earlier
\* path: two sockets were opened
C24_Witness ==
    \E t \in ThreadIds :
        /\ threads[t].pc = "rel_fail"
        /\ threads[t].be \in CentauriNames
        /\ threads[t].out.wire = "garbled"
        /\ Cardinality(threads[t].out.opened) = 2
        /\ threads[t].out.closed = threads[t].out.opened

\* every started Monitor has returned and so has the Supervisor
AllTerminated == sup.pc = "done" /\ \A t \in ThreadIds : ~is_alive(t)

\* C25: once the stop signal is set, a Monitor and the Supervisor whose loop
\* head runs exit there; a thread inside an iteration goes on with it and is
\* not ended before its loop head; and in the end every Monitor and the
\* Supervisor have terminated.
C25_StopEndsEveryThread ==
    /\ [][stop_evt =>
            /\ \A t \in ThreadIds :
                /\ LeavesTop(t) => threads'[t].pc = "done"
                /\ (is_alive(t) /\ threads[t].pc # "top") => threads'[t].pc # "done"
            /\ (sup.pc = "load" /\ sup' # sup) => sup'.pc = "done"
            /\ (sup.pc = "reconcile") => sup'.pc # "done"]_vars
    /\ stop_evt ~> AllTerminated

\* the process has ended: the signal is set, the Supervisor and the Monitors
\* have returned, one of them a Monitor the Supervisor had started
C25_Witness ==
    /\ stop_evt
    /\ AllTerminated
    /\ nthreads >= 2

\* thread t is inside a poll: the adapter call or the write of its outcome
InPoll(t) == threads[t].pc \in {"fetch", "rel_ok", "rel_fail"}

\* C26: the polls of a device come one after the other.  No two Monitors of a
\* device are inside a poll at the same moment; a poll starts at the loop head
\* only; the step that ends the adapter call stores the outcome of that very
\* poll with the time of the write, never an earlier time than the record had;
\* and only then the Monitor goes back to the loop head.
C26_PollsOfADeviceInSequence ==
    /\ [](\A t, u \in ThreadIds :
            (t # u /\ InPoll(t) /\ InPoll(u)) => threads[t].prn.id # threads[u].prn.id)
    /\ [][\A t \in ThreadIds :
            LET name == threads[t].name IN
            /\ (~InPoll(t) /\ threads'[t].pc = "fetch") => threads[t].pc = "top"
            /\ (threads[t].pc = "fetch" /\ threads'[t] # threads[t]) => CallEnds(t)
            /\ CallEnds(t) =>
                LET rec == printer_state'[name]
                    out == threads'[t].out
                IN  /\ rec.last_update = now \div 10
                    /\ name \in DOMAIN printer_state
                            => rec.last_update >= printer_state[name].last_update
                    /\ out.exc = "none" => (rec.error = None /\ rec.state = out.res.state)
                    /\ out.exc # "none" => rec.error = Some(threads'[t].err)
            /\ (threads[t].pc \in {"rel_ok", "rel_fail"} /\ threads'[t] # threads[t])
                    => threads'[t].pc = "top"]_vars

\* a Monitor the Supervisor started for a device whose earlier Monitor has
\* returned has stored the outcome of a poll
C26_Witness ==
    \E t, u \in ThreadIds :
        /\ t # u
        /\ threads[u].pc = "done"
        /\ threads[u].prn.id = threads[t].prn.id
        /\ threads[t].pc \in {"rel_ok", "rel_fail"}
        /\ printer_state[threads[t].name].last_update = now \div 10

\* C27: after a failed poll the diagnostic is printed, and its text and time
\* become the last printed ones, exactly when the failure is the first since
\* the start or the last success, or its text is not the last printed text, or
\* the throttle window of the device has passed since the last printed one;
\* otherwise the last printed text and time stay as they are.
C27_DiagnosticIffDue ==
    [][\A t \in ThreadIds :
        Moves(t, "rel_fail", "top") =>
            LET th == threads[t]
                due == \/ th.consecutive_errors = 1
                       \/ th.last_error_text # Some(th.err)
                       \/ th.tnow - th.last_error_report_ts >= th.err_interval
            IN  /\ due => /\ threads'[t].last_error_text = Some(th.err)
                          /\ threads'[t].last_error_report_ts = th.tnow
                /\ ~due => /\ threads'[t].last_error_text = th.last_error_text
                           /\ threads'[t].last_error_report_ts = th.last_error_report_ts
                           /\ th.last_error_report_ts < th.tnow]_vars

\* a failure with the text printed last, not the first in its row, is printed
\* because the window has passed; an earlier one of the row was not printed
C27_Witness ==
    \E t \in ThreadIds :
        /\ threads[t].pc = "top"
        /\ threads[t].consecutive_errors >= 3
        /\ threads[t].last_error_report_ts >= StartTime + threads[t].err_interval
        /\ threads[t].last_error_text = Some(UnexpectedText(threads[t], <<"garbled">>))
        /\ threads[t].be \in CentauriNames

\* C28: a read of the printers row that raises at the loop head neither ends
\* the Monitor nor touches printer_state: the thread goes on to the adapter
\* call of the same iteration with the host, port, scheme, base URL and
\* tasmota host it held, and the loop head after a failed read reads the row
\* again, so that a read that then succeeds follows the row as it is by then.
ReadFailed(t) == LeavesTop(t) /\ ~stop_evt /\ ~threads'[t].row_ok
FailedLastTime(t) == threads[t].pc = "top" /\ ~threads[t].row_ok /\ threads[t].wake > 0
C28_FailedReadIsOnlyLogged ==
    [][\A t \in ThreadIds :
        /\ ReadFailed(t) =>
              /\ threads'[t] = [threads[t] EXCEPT !.pc = "fetch",
                                                  !.row_ok = FALSE,
                                                  !.poll_interval = threads'[t].poll_interval,
                                                  !.timeout = threads'[t].timeout]
              /\ printer_state' = printer_state
              /\ state_lock' = state_lock
        /\ (FailedLastTime(t) /\ LeavesTop(t) /\ ~stop_evt /\ threads'[t].row_ok) =>
              threads'[t].pc =
                  CASE RowVerdict(registry, threads[t].prn.id) = "gone" -> "pop"
                    [] RowVerdict(registry, threads[t].prn.id) = "no_scanning" -> "ns"
                    [] OTHER -> "fetch"
    ]_vars

\* a Monitor back at the loop head after an iteration whose read failed, its
\* record written by that iteration's poll
C28_Witness ==
    \E t \in ThreadIds :
        /\ FailedLastTime(t)
        /\ threads[t].name \in DOMAIN printer_state
        /\ "last_update" \in DOMAIN printer_state[threads[t].name]
        /\ printer_state[threads[t].name].last_update * 10
               + SleepTime(threads[t].poll_interval) = threads[t].wake

\* C29: every loop iteration loads the poll interval anew: the interval of an
\* iteration is the one in the settings table when its loop head runs, or the
\* configured default when that read raises; the timeout handed to the
\* adapter (max(5 s, interval + 2 s), for Centauri max(10 s, 2 * interval))
\* and the sleep that ends the iteration (max(0.2 s, interval)) are both
\* computed from the interval loaded in that same iteration.
InIteration(t) == threads[t].pc \in {"fetch", "rel_ok", "rel_fail"}
C29_IntervalReadEveryIteration ==
    [][\A t \in ThreadIds :
        /\ \A db_ok, settings_ok \in BOOLEAN :
              (LoopHead(t, db_ok, settings_ok) /\ threads'[t].pc = "fetch") =>
                  LET p == IF settings_ok THEN settings.poll_interval
                           ELSE DefaultPollInterval
                  IN  /\ threads'[t].poll_interval = p
                      /\ threads'[t].timeout =
                            IF threads[t].be \in CentauriNames
                            THEN Max(CentauriTimeoutFloor, 2 * p)
                            ELSE Max(HttpTimeoutFloor, p + HttpTimeoutMargin)
        /\ (InIteration(t) /\ is_alive(t)') =>
              /\ threads'[t].poll_interval = threads[t].poll_interval
              /\ threads'[t].timeout = threads[t].timeout
        /\ (InIteration(t) /\ threads'[t].pc = "top") =>
              threads'[t].wake = now + Max(MinSleep, threads[t].poll_interval)
    ]_vars

\* a Monitor asleep after a later iteration that ran on an interval saved
\* after the thread was started
C29_Witness ==
    \E t \in ThreadIds :
        /\ threads[t].pc = "top"
        /\ now > StartTime
        /\ settings.poll_interval # DefaultPollInterval
        /\ threads[t].poll_interval = settings.poll_interval
        /\ threads[t].wake = now + SleepTime(threads[t].poll_interval)

\* C30: a loop head that reads the row of its device enabled with no_scanning
\* set starts no adapter call: the Monitor stores the placeholder record
\* (state no_scanning, progress, elapsed time and ETA zero, temperatures
\* null, last_update 0, error null, no_scanning true) for its device, changes
\* no other record, and ends.  A loop head that reads the row disabled with
\* no_scanning set removes the record of the device instead.
ReadsRow(t) == LeavesTop(t) /\ ~stop_evt /\ threads'[t].row_ok
                /\ threads[t].prn.id \in DOMAIN registry
OthersKept(t) ==
    \A k \in (DOMAIN printer_state \cup DOMAIN printer_state') \ {threads[t].name} :
        /\ k \in DOMAIN printer_state
        /\ k \in DOMAIN printer_state'
        /\ printer_state'[k] = printer_state[k]
C30_NoScanningPlaceholderThenStop ==
    [][\A t \in ThreadIds :
        LET row == registry[threads[t].prn.id]
            pc == threads[t].pc
            pc2 == threads'[t].pc
            name == threads[t].name
        IN  /\ (ReadsRow(t) /\ row.enabled /\ row.no_scanning) =>
                  pc2 = "ns" /\ printer_state' = printer_state
            /\ (ReadsRow(t) /\ ~row.enabled /\ row.no_scanning) =>
                  pc2 = "pop" /\ printer_state' = printer_state
            /\ (pc = "ns" /\ threads'[t] # threads[t]) =>
                  /\ pc2 = "ns_rel"
                  /\ name \in DOMAIN printer_state'
                  /\ LET rec == printer_state'[name]
                     IN  /\ rec.state = "no_scanning"
                         /\ rec.progress_pct = 0
                         /\ rec.elapsed_s = <<0, 1>>
                         /\ rec.eta_s = <<0, 1>>
                         /\ rec.hotend = None /\ rec.hotend_t = None
                         /\ rec.bed = None /\ rec.bed_t = None
                         /\ rec.last_update = 0
                         /\ rec.error = None
                         /\ rec.no_scanning = TRUE
                         /\ rec.id = threads[t].prn.id
                         /\ rec.name = name
                  /\ OthersKept(t)
            /\ (pc = "ns_rel" /\ threads'[t] # threads[t]) =>
                  pc2 = "done" /\ printer_state' = printer_state
            /\ (pc = "pop" /\ threads'[t] # threads[t]) =>
                  /\ pc2 = "pop_rel"
                  /\ name \notin DOMAIN printer_state'
                  /\ OthersKept(t)
    ]_vars

\* a Monitor that had polled its device has stored the placeholder for it,
\* the row being enabled with no_scanning set, and is about to end
C30_Witness ==
    \E t \in ThreadIds :
        /\ threads[t].pc = "ns_rel"
        /\ threads[t].poll_interval > 0
        /\ threads[t].prn.id \in DOMAIN registry
        /\ registry[threads[t].prn.id].enabled
        /\ registry[threads[t].prn.id].no_scanning
        /\ printer_state[threads[t].name].state = "no_scanning"
        /\ printer_state[threads[t].name].no_scanning

\* a Monitor has removed the record of a device whose row is disabled with
\* no_scanning set
C30_WitnessDisabled ==
    \E t \in ThreadIds :
        /\ threads[t].pc = "pop_rel"
        /\ threads[t].prn.id \in DOMAIN registry
        /\ ~registry[threads[t].prn.id].enabled
        /\ registry[threads[t].prn.id].no_scanning
        /\ threads[t].name \notin DOMAIN printer_state

\* C31: in a reconciliation round of the Supervisor, a loaded (enabled)
\* printer with no_scanning set that has no live Monitor thread gets the
\* no_scanning placeholder stored under its name, no other record changes and
\* no thread is started or registered; a loaded printer whose Monitor thread
\* is alive is passed over, with the threads, the thread table and
\* printer_state left as they are.
SupTakes == sup.pc = "reconcile" /\ sup.printers # <<>> /\ sup' # sup
LiveMonitorOf(pid) ==
    \E t \in ThreadIds :
        /\ pid \in DOMAIN monitor_threads
        /\ monitor_threads[pid] = t
        /\ threads[t].pc \notin {"unborn", "done"}
C31_NoScanningPublishedNotSpawned ==
    [][SupTakes =>
        LET prn == Head(sup.printers) IN
        /\ LiveMonitorOf(prn.id) =>
              /\ threads' = threads
              /\ nthreads' = nthreads
              /\ monitor_threads' = monitor_threads
              /\ printer_state' = printer_state
        /\ (~LiveMonitorOf(prn.id) /\ prn.no_scanning) =>
              /\ threads' = threads
              /\ nthreads' = nthreads
              /\ monitor_threads' = monitor_threads
              /\ prn.name \in DOMAIN printer_state'
              /\ printer_state'[prn.name].id = prn.id
              /\ printer_state'[prn.name].state = "no_scanning"
              /\ printer_state'[prn.name].no_scanning = TRUE
              /\ printer_state'[prn.name].last_update = 0
              /\ \A k \in (DOMAIN printer_state \cup DOMAIN printer_state') \ {prn.name} :
                    /\ k \in DOMAIN printer_state
                    /\ k \in DOMAIN printer_state'
                    /\ printer_state'[k] = printer_state[k]
    ]_vars

\* the Supervisor has just stored the placeholder of a printer whose Monitor
\* thread had ended, and no thread of that printer is alive
C31_Witness ==
    /\ sup.pc = "published"
    /\ LET prn == Head(sup.printers) IN
        /\ prn.no_scanning
        /\ prn.id \in DOMAIN monitor_threads
        /\ threads[monitor_threads[prn.id]].pc = "done"
        /\ printer_state[prn.name].state = "no_scanning"
        /\ printer_state[prn.name].no_scanning

\* the Supervisor is about to pass over a no_scanning printer whose Monitor
\* thread is still alive
C31_WitnessLive ==
    /\ sup.pc = "reconcile"
    /\ sup.printers # <<>>
    /\ Head(sup.printers).no_scanning
    /\ LiveMonitorOf(Head(sup.printers).id)

\* C32: the state a successful poll stores is the state the adapter made of
\* the device's answer, with one exception: for a Centauri device whose
\* stored record has state printing and whose adapter state is standby, the
\* stored state is printing when the progress, the hotend target or the bed
\* target of the answer is above 0.  For Moonraker and OctoPrint devices the
\* adapter's state is stored as it is.
AdapterStateOf(be, raw) ==
    IF be = "octoprint" THEN octoprint_state(raw.state.octoprint)
    ELSE IF be \in CentauriNames THEN centauri_state(raw.state.centauri.Status)
    ELSE moonraker_state(raw.state.moonraker)
WasPrinting(name) ==
    /\ name \in DOMAIN printer_state
    /\ "state" \in DOMAIN printer_state[name]
    /\ printer_state[name].state = "printing"
C32_CentauriKeepsPrinting ==
    [][\A t \in ThreadIds :
        Succeeds(t) =>
            LET th == threads[t]
                res == threads'[t].out.res
                adapter == AdapterStateOf(th.be, threads'[t].out.raw)
                stored == printer_state'[th.name].state
            IN  IF /\ th.be \in CentauriNames
                   /\ WasPrinting(th.name)
                   /\ adapter = "standby"
                   /\ (res.progress > 0 \/ res.hotend_t > 0 \/ res.bed_t > 0)
                THEN stored = "printing"
                ELSE stored = adapter
    ]_vars

\* a Centauri device that was printing and now answers with status 0 while
\* its targets are still set: the record stays at printing
C32_Witness ==
    \E t \in ThreadIds :
        /\ threads[t].pc = "rel_ok"
        /\ threads[t].be \in CentauriNames
        /\ threads[t].out.raw.state.centauri.Status = 0
        /\ threads[t].out.res.progress = 0
        /\ threads[t].out.res.hotend_t > 0
        /\ printer_state[threads[t].name].state = "printing"

\* C33: no exception of a Supervisor round ends the Supervisor: when the load
\* of the settings or of the printers raises, or the start of a thread
\* raises during the reconciliation, the Supervisor goes to sleep for at
\* least 5 s and loads again when it wakes; the failed round changes no
\* Monitor thread, no registration and no record.  The Supervisor ends only
\* at a loop head that finds the stop signal set.
SupGivesUp ==
    /\ sup' # sup
    /\ sup'.pc = "load"
    /\ \/ sup.pc = "load"
       \/ sup.pc = "reconcile" /\ sup.printers # <<>>
C33_SupervisorSurvivesExceptions ==
    [][/\ (sup' # sup /\ sup'.pc = "done") => (sup.pc = "load" /\ stop_evt)
       /\ SupGivesUp =>
            /\ sup'.wake >= now + MinReloadSleep
            /\ threads' = threads
            /\ nthreads' = nthreads
            /\ monitor_threads' = monitor_threads
            /\ printer_state' = printer_state
            /\ state_lock' = state_lock
       /\ (sup' # sup /\ sup'.pc = "load") => sup'.wake >= now + MinReloadSleep
       /\ (sup.pc = "load" /\ sup' # sup) => now >= sup.wake
       /\ (SupLoadRead("ok") /\ ~stop_evt) =>
            /\ sup'.pc = "reconcile"
            /\ sup'.printers = load_printers_from_db(registry)
    ]_vars

\* the Supervisor sleeps after a round in which the start of a thread for an
\* added printer raised, while the Monitor started before is inside an
\* adapter call
C33_Witness ==
    /\ sup.pc = "load"
    /\ sup.printers # <<>>
    /\ sup.wake >= now + MinReloadSleep
    /\ Head(sup.printers).id \notin DOMAIN monitor_threads
    /\ \E t \in ThreadIds : threads[t].pc = "fetch"

\* C34 as stated: in every state, eta_s of every record of printer_state is
\* 0 or more (eta_s is a fraction <<numerator, denominator>> with a
\* denominator above 0).
C34_EtaNeverNegative ==
    \A k \in DOMAIN printer_state :
        "eta_s" \in DOMAIN printer_state[k] =>
            /\ printer_state[k].eta_s[2] > 0
            /\ printer_state[k].eta_s[1] >= 0

\* C35 as stated: in every state, no two records of printer_state hold the
\* same device id.
C35_OneRecordPerId ==
    \A k1, k2 \in DOMAIN printer_state :
        ( /\ k1 # k2
          /\ "id" \in DOMAIN printer_state[k1]
          /\ "id" \in DOMAIN printer_state[k2] )
            => printer_state[k1].id # printer_state[k2].id

\* C36 as stated: whenever a Monitor thread starts, at the start of the
\* process or by a later Supervisor round, printer_state holds a record of
\* the thread's device under the thread's name.
C36_PlaceholderAtMonitorStart ==
    /\ \A t \in ThreadIds :
          threads[t].pc = "top" =>
              /\ threads[t].name \in DOMAIN printer_state
              /\ printer_state[threads[t].name].id = threads[t].prn.id
    /\ [][\A t \in ThreadIds :
            (threads[t].pc = "unborn" /\ threads'[t].pc = "top") =>
                /\ threads'[t].name \in DOMAIN printer_state'
                /\ printer_state'[threads'[t].name].id = threads'[t].prn.id
         ]_vars

\* C37 as stated: a poll whose answer holds a value that is no number in a
\* numeric field (elapsed, progress, a temperature) succeeds, whatever the
\* backend: the stored record has 0 for that field and the answer's values
\* for the other fields.
UnreadableFields(t) == threads'[t].out.raw.bad
C37_NonNumericBecomesZero ==
    [][\A t \in ThreadIds :
        ( /\ threads[t].pc = "fetch"
          /\ threads'[t].pc # "fetch"
          /\ threads'[t].out.wire = "answer"
          /\ UnreadableFields(t) # {} ) =>
            LET raw == threads'[t].out.raw
                rec == printer_state'[threads[t].name]
                Val(f) == IF f \in raw.bad THEN 0 ELSE raw[f]
            IN  /\ threads'[t].pc = "rel_ok"
                /\ rec.error = None
                /\ rec.filename = raw.filename
                /\ rec.elapsed_s = <<Val("elapsed"), 1>>
                /\ rec.hotend = <<Val("hotend")>>
                /\ rec.hotend_t = <<Val("hotend_t")>>
                /\ rec.bed = <<Val("bed")>>
                /\ rec.bed_t = <<Val("bed_t")>>
                /\ "progress" \in raw.bad => rec.progress_pct = 0
    ]_vars

\* the same for the two HTTP backends alone
C37_HttpBackendsCoerce ==
    [][\A t \in ThreadIds :
        ( /\ threads[t].pc = "fetch"
          /\ threads'[t].pc # "fetch"
          /\ threads[t].be \notin CentauriNames
          /\ threads'[t].out.wire = "answer"
          /\ UnreadableFields(t) # {} ) =>
            LET raw == threads'[t].out.raw
                rec == printer_state'[threads[t].name]
                Val(f) == IF f \in raw.bad THEN 0 ELSE raw[f]
            IN  /\ threads'[t].pc = "rel_ok"
                /\ rec.error = None
                /\ rec.filename = raw.filename
                /\ rec.elapsed_s = <<Val("elapsed"), 1>>
                /\ rec.hotend = <<Val("hotend")>>
                /\ rec.hotend_t = <<Val("hotend_t")>>
                /\ rec.bed = <<Val("bed")>>
                /\ rec.bed_t = <<Val("bed_t")>>
                /\ "progress" \in raw.bad => rec.progress_pct = 0
    ]_vars

\* C38: the progress fetch_centauri returns is PrintInfo.Progress / 100 when
\* Progress is above 1, Progress itself when it is above 0 and at most 1,
\* else CurrentTicks / TotalTicks held within [0, 1] when TotalTicks is above
\* 0, else 0 (progress in units of 1/10000, divisions rounded down to one
\* unit).
C38_CentauriProgress ==
    [][\A t \in ThreadIds :
        (Succeeds(t) /\ threads[t].be \in CentauriNames) =>
            LET raw == threads'[t].out.raw
                p == threads'[t].out.res.progress
                r == raw.progress
                e == raw.elapsed
                tot == raw.state.centauri.TotalTicks
            IN  IF r > ProgScale THEN 100 * p <= r /\ r < 100 * (p + 1)
                ELSE IF r > 0 THEN p = r
                ELSE IF tot > 0
                     THEN IF e >= tot THEN p = ProgScale
                          ELSE IF e <= 0 THEN p = 0
                          ELSE p * tot <= e * ProgScale /\ e * ProgScale < (p + 1) * tot
                ELSE p = 0
    ]_vars

\* a Centauri answer without Progress whose CurrentTicks are above its
\* TotalTicks: the progress is 1
C38_Witness ==
    \E t \in ThreadIds :
        /\ threads[t].pc = "rel_ok"
        /\ threads[t].be \in CentauriNames
        /\ threads[t].out.raw.progress = 0
        /\ threads[t].out.raw.state.centauri.TotalTicks = 600
        /\ threads[t].out.raw.elapsed = 3725
        /\ threads[t].out.res.progress = ProgScale
        /\ printer_state[threads[t].name].progress_pct = 1000

\* C39: in a poll iteration run on poll interval p (in tenths of a second),
\* the timeout of the adapter call is max(50, p + 20) for a Moonraker or
\* OctoPrint device and max(100, 2 * p) for a Centauri device, and the pause
\* that ends the iteration is max(2, p), p being the interval the loop head
\* of that iteration loaded.
C39_TimeoutAndPause ==
    [][\A t \in ThreadIds :
        LET th == threads[t]
            p == th.poll_interval
        IN  /\ Moves(t, "fetch", "rel_ok") \/ Moves(t, "fetch", "rel_fail") =>
                  /\ th.timeout = IF th.be \in {"moonraker", "octoprint"}
                                  THEN (IF p + 20 > 50 THEN p + 20 ELSE 50)
                                  ELSE (IF 2 * p > 100 THEN 2 * p ELSE 100)
                  /\ threads'[t].poll_interval = p
            /\ Moves(t, "rel_ok", "top") \/ Moves(t, "rel_fail", "top") =>
                  threads'[t].wake - now = IF p > 2 THEN p ELSE 2
            /\ Moves(t, "top", "fetch") =>
                  threads'[t].poll_interval \in {settings.poll_interval, DefaultPollInterval}
    ]_vars

\* a Centauri device polled on an interval of 10 s, its adapter call running
\* with a timeout of 20 s
C39_Witness ==
    \E t \in ThreadIds :
        /\ threads[t].pc = "fetch"
        /\ threads[t].be \in CentauriNames
        /\ threads[t].poll_interval = 100
        /\ threads[t].timeout = 200

\* a device polled on an interval of 0.1 s sleeps 0.2 s
C39_WitnessPause ==
    \E t \in ThreadIds :
        /\ threads[t].pc = "top"
        /\ threads[t].poll_interval = 1
        /\ threads[t].wake = now + 2

====
